---------------------------- MODULE Spec2Model ----------------------------
(***************************************************************************)
(* Blood bank API: the donor matching engine (model2_matching.py), the     *)
(* shortage prediction engine (model1_prediction.py), the analytics engine *)
(* (model3_analytics.py) and their handlers and the inventory handlers of  *)
(* app.py, over the SQLite tables created by data/import_data.py.          *)
(*                                                                         *)
(* Numbers.  The code computes with floats; the model computes the same    *)
(* expressions exactly, in fixed point:                                    *)
(*   sub-scores (blood, distance, donation)   in units of 1/100000         *)
(*   matching score                           in units of 1/10000000       *)
(*   distances                                in metres                    *)
(*   coordinates                              in 1/100 degree              *)
(*   the clock `now`                          in whole days since Epoch    *)
(*   averages, rates and days remaining       as fractions [n, d]          *)
(* Where the code rounds a float that stands for an exact tie, the side    *)
(* the float falls to is a choice of the action that rounds.               *)
(***************************************************************************)
EXTENDS Integers, Sequences, FiniteSets, TLC

VARIABLES
    donors,      \* table donors: rows in rowid order
    inventory,   \* table blood_inventory: a set of rows
    now,         \* the clock read by datetime.now()
    req,         \* the request being served: its JSON body or query string
    ranked,      \* /match/emergency: donors_df after sort_values
    resp,        \* the response to req (status and JSON)
    call,        \* a direct call of an engine's helper: arguments and result
    conn,        \* /inventory/update: per request thread, its position and locals
    lock,        \* the SQLite write lock: the thread holding it, or NoThread
    inv_resp,    \* /inventory: the response of the last read
    blood_usage_history,  \* table blood_usage_history: rows in rowid order
    inventory_movements,  \* table inventory_movements: rows in rowid order
    events                \* table events: rows in rowid order

\* the tables no handler of app.py writes (import_data.py fills them)
history_tables == <<blood_usage_history, inventory_movements, events>>

vars == <<donors, inventory, now, req, ranked, resp, call, conn, lock, inv_resp,
          history_tables>>

----------------------------------------------------------------------------
(* Bounds of the model *)

MaxDonors == 3
BulkDonors == 11
MaxClock == 2
MaxHistory == 2
MaxMovements == 2
MaxEvents == 2
NumThreads == 2

----------------------------------------------------------------------------
(* Small helpers *)

Min(a, b) == IF a <= b THEN a ELSE b
Max(a, b) == IF a >= b THEN a ELSE b
Abs(a) == IF a >= 0 THEN a ELSE -a
Range(s) == {s[i] : i \in 1..Len(s)}

NoThread == 0

----------------------------------------------------------------------------
(* model2_matching.py: _get_compatible_blood_types *)

BloodTypes == {"O-", "O+", "A-", "A+", "B-", "B+", "AB-", "AB+"}

\* The same lookup with the O+ donor missing from the A+ row.
CompatibilityMissingEntry(blood_type) ==
    CASE blood_type = "O-"  -> {"O-"}
      [] blood_type = "O+"  -> {"O-", "O+"}
      [] blood_type = "A-"  -> {"O-", "A-"}
      [] blood_type = "A+"  -> {"O-", "A-", "A+"}
      [] blood_type = "B-"  -> {"O-", "B-"}
      [] blood_type = "B+"  -> {"O-", "O+", "B-", "B+"}
      [] blood_type = "AB-" -> {"O-", "A-", "B-", "AB-"}
      [] blood_type = "AB+" -> {"O-", "O+", "A-", "A+", "B-", "B+", "AB-", "AB+"}
      [] OTHER -> {blood_type}

_get_compatible_blood_types(blood_type) ==
    CASE blood_type = "O-"  -> {"O-"}
      [] blood_type = "O+"  -> {"O-", "O+"}
      [] blood_type = "A-"  -> {"O-", "A-"}
      [] blood_type = "A+"  -> {"O-", "O+", "A-", "A+"}
      [] blood_type = "B-"  -> {"O-", "B-"}
      [] blood_type = "B+"  -> {"O-", "O+", "B-", "B+"}
      [] blood_type = "AB-" -> {"O-", "A-", "B-", "AB-"}
      [] blood_type = "AB+" -> {"O-", "O+", "A-", "A+", "B-", "B+", "AB-", "AB+"}
      [] OTHER -> {blood_type}

----------------------------------------------------------------------------
(* datetime: strptime(s, '%Y-%m-%d') and the day arithmetic of              *)
(* (datetime.now() - last_date).days.  A stored last_donation_date is NULL  *)
(* (None in the data frame), a text that is not of the form Y-M-D, or the   *)
(* text "y-m-d", whose month and day are not necessarily those of a date.   *)

NullDate == [kind |-> "null", y |-> 0, m |-> 0, d |-> 0]
GarbageDate == [kind |-> "garbage", y |-> 0, m |-> 0, d |-> 0]
DateText(y, m, d) == [kind |-> "ymd", y |-> y, m |-> m, d |-> d]

IsLeap(y) == (y % 4 = 0) /\ ((y % 100 # 0) \/ (y % 400 = 0))

DaysInMonth(y, m) ==
    CASE m \in {1, 3, 5, 7, 8, 10, 12} -> 31
      [] m \in {4, 6, 9, 11} -> 30
      [] OTHER -> IF IsLeap(y) THEN 29 ELSE 28

RECURSIVE DaysBeforeMonth(_, _)
DaysBeforeMonth(y, m) ==
    IF m <= 1 THEN 0 ELSE DaysBeforeMonth(y, m - 1) + DaysInMonth(y, m - 1)

DaysBeforeYear(y) ==
    LET p == y - 1 IN p * 365 + (p \div 4) - (p \div 100) + (p \div 400)

ToOrdinal(y, m, d) == DaysBeforeYear(y) + DaysBeforeMonth(y, m) + d

\* strptime raises (ValueError, or TypeError for None) exactly when this is FALSE
Parses(text) ==
    /\ text.kind = "ymd"
    /\ text.y \in 1..9999
    /\ text.m \in 1..12
    /\ text.d \in 1..DaysInMonth(text.y, text.m)

strptime(text) == ToOrdinal(text.y, text.m, text.d)

\* the date of datetime.now(): the clock counts days from 2024-06-01
Today(clock) == ToOrdinal(2024, 6, 1) + clock

----------------------------------------------------------------------------
(* model2_matching.py: _haversine_distance, in metres.  The model takes     *)
(* pairs of points on one meridian, on the equator, or antipodal to one     *)
(* another, where the great-circle formula reduces to R * (the angle        *)
(* between the points): 6371 km * pi / 180 = 111.19493 km per degree,       *)
(* 1111.9493 m per 1/100 degree.                                            *)

\* two points opposite one another on the sphere
Antipodal(lat1, lon1, lat2, lon2) == lat2 = -lat1 /\ Abs(lon2 - lon1) = 18000

\* the pairs of points the model computes a distance for
InDomain(lat1, lon1, lat2, lon2) ==
    \/ lon1 = lon2
    \/ lat1 = 0 /\ lat2 = 0
    \/ Antipodal(lat1, lon1, lat2, lon2)

\* lines 137-138: for antipodal points a is sin(lat)^2 + cos(lat)^2, which the
\* floats round to 1.0 or to a neighbour of it; above 1.0, sqrt(1 - a) raises
\* ValueError('math domain error').  On the equator and at the poles one of
\* the two terms is 0 and a is at most 1.0.
MayExceedOne(lat1, lon1, lat2, lon2) ==
    /\ Antipodal(lat1, lon1, lat2, lon2)
    /\ lat1 \notin {0, 9000, -9000}

\* lines 131 and 140: R * c for a central angle c given in 1/100 degree, in
\* whole metres: angle * 1111.9493, computed without leaving 32 bits
Metres(angle) == angle * 1111 + (angle * 9493) \div 10000

\* lines 131-140, for a pair whose a is at most 1.0
_haversine_distance(lat1, lon1, lat2, lon2) ==
    CASE lon1 = lon2 -> Metres(Abs(lat2 - lat1))
      [] lon1 # lon2 /\ lat1 = 0 /\ lat2 = 0 ->
             Metres(Min(Abs(lon2 - lon1), 36000 - Abs(lon2 - lon1)))
      [] lon1 # lon2 /\ ~(lat1 = 0 /\ lat2 = 0)
            /\ Antipodal(lat1, lon1, lat2, lon2) ->
             Metres(18000)

----------------------------------------------------------------------------
(* model2_matching.py: _calculate_matching_score *)

\* lines 153-159
BloodScore(donor_blood_type, needed_blood_type) ==
    IF donor_blood_type = needed_blood_type THEN 100000
    ELSE IF donor_blood_type \in _get_compatible_blood_types(needed_blood_type)
         THEN 70000
         ELSE 0

\* lines 161-169; distance in metres
DistanceScore(distance) ==
    IF distance <= 5000 THEN 100000
    ELSE IF distance <= 10000 THEN 70000
    ELSE IF distance <= 20000 THEN 40000
    ELSE Max(10000, 100000 - distance)

\* The same score with the 56-day minimum safe period compared strictly.
DonationScoreStrictMinimum(last_donation, clock) ==
    IF Parses(last_donation)
    THEN LET days_since == Today(clock) - strptime(last_donation) IN
         IF days_since >= 90 THEN 100000
         ELSE IF days_since > 56 THEN 80000
         ELSE 30000
    ELSE 50000

\* lines 171-183
DonationScore(last_donation, clock) ==
    IF Parses(last_donation)
    THEN LET days_since == Today(clock) - strptime(last_donation) IN
         IF days_since >= 90 THEN 100000
         ELSE IF days_since >= 56 THEN 80000
         ELSE 30000
    ELSE 50000

\* lines 185-191, in tenths
UrgencyMultiplier(urgency) ==
    CASE urgency = "CRITICAL" -> 12
      [] urgency = "HIGH" -> 11
      [] urgency = "MEDIUM" -> 10
      [] urgency = "LOW" -> 9
      [] OTHER -> 10

\* lines 193-199
WeightedScore(donor_blood_type, needed_blood_type, distance, last_donation, urgency, clock) ==
    ( BloodScore(donor_blood_type, needed_blood_type) * 4
    + DistanceScore(distance) * 3
    + DonationScore(last_donation, clock) * 2
    + 100000 ) * UrgencyMultiplier(urgency)

\* 1.0 in the units of the matching score
One == 10000000

\* The same score without the cap of line 201.
ScoreWithoutCap(donor_blood_type, needed_blood_type, distance, last_donation, urgency, clock) ==
    WeightedScore(donor_blood_type, needed_blood_type, distance, last_donation, urgency, clock)

_calculate_matching_score(donor_blood_type, needed_blood_type, distance, last_donation, urgency, clock) ==
    Min(WeightedScore(donor_blood_type, needed_blood_type, distance,
                      last_donation, urgency, clock), One)



----------------------------------------------------------------------------
(* Values of the variables while the part of the program they belong to is  *)
(* not running.                                                             *)

Threads == 1..NumThreads

NoCall == [fn |-> "none", returned |-> FALSE]
NoRequest == [kind |-> "none"]
NoResponse == [status |-> 0, kind |-> "none"]
IdleConn ==
    [pc |-> "idle", data |-> [kind |-> "none"], ts_insert |-> 0, ts_update |-> 0,
     txn |-> {}, status |-> 0, message |-> ""]

----------------------------------------------------------------------------
(* model2_matching.py: match_donors *)

\* lines 32-38: SELECT * FROM donors WHERE blood_type IN (...) AND
\* is_available = 1, rows in rowid order
RECURSIVE SelectSeq2(_, _, _)
SelectSeq2(table, compatible_types, only_available) ==
    IF table = <<>> THEN <<>>
    ELSE LET row == Head(table)
             rest == SelectSeq2(Tail(table), compatible_types, only_available)
         IN  IF /\ row.blood_type \in compatible_types
                /\ (only_available => row.is_available = 1)
             THEN <<row>> \o rest
             ELSE rest

\* The same query without the is_available condition.
ReadDonorsAnyAvailability(table, compatible_types) ==
    SelectSeq2(table, compatible_types, FALSE)

read_sql(table, compatible_types) == SelectSeq2(table, compatible_types, TRUE)

\* The emptiness test answering FALSE for every frame.
NeverEmpty(df) == FALSE

\* line 41: donors_df.empty
IsEmpty(df) == Len(df) = 0

\* lines 53-70: the columns distance_km (metres here) and matching_score
AddScores(df, location, blood_type, urgency_level, clock) ==
    [i \in 1..Len(df) |->
        LET row == df[i]
            distance_km == _haversine_distance(location.latitude, location.longitude,
                                               row.location_lat, row.location_lng)
        IN  [donor_id |-> row.donor_id,
             blood_type |-> row.blood_type,
             location_lat |-> row.location_lat,
             location_lng |-> row.location_lng,
             last_donation_date |-> row.last_donation_date,
             is_available |-> row.is_available,
             distance_km |-> distance_km,
             matching_score |-> _calculate_matching_score(
                                    row.blood_type, blood_type, distance_km,
                                    row.last_donation_date, urgency_level, clock)]]

\* The orders of the rows at positions idx of df in which no row precedes one
\* of a higher matching_score.  sort_values is called with its default
\* kind='quicksort', which is not a stable sort: rows of equal score come out
\* in an order that depends on the numpy build, so every order is possible.
RECURSIVE DescendingOrders(_, _)
DescendingOrders(df, idx) ==
    IF idx = {} THEN {<<>>}
    ELSE LET best == {i \in idx :
                         \A j \in idx : df[i].matching_score >= df[j].matching_score}
         IN  UNION {{<<df[i]>> \o rest : rest \in DescendingOrders(df, idx \ {i})} :
                    i \in best}

RECURSIVE AscendingOrders(_, _)
AscendingOrders(df, idx) ==
    IF idx = {} THEN {<<>>}
    ELSE LET least == {i \in idx :
                          \A j \in idx : df[i].matching_score <= df[j].matching_score}
         IN  UNION {{<<df[i]>> \o rest : rest \in AscendingOrders(df, idx \ {i})} :
                    i \in least}

\* The same sort with ascending=True.
SortAscending(df) == AscendingOrders(df, 1..Len(df))

\* line 73: donors_df.sort_values('matching_score', ascending=False)
sort_values(df) == DescendingOrders(df, 1..Len(df))

\* line 74: DataFrame.head(n): the first n rows, and for a negative n all
\* rows but the last -n
head(df, n) ==
    IF n >= 0 THEN SubSeq(df, 1, Min(n, Len(df)))
    ELSE SubSeq(df, 1, Max(Len(df) + n, 0))

\* round(x, 2) of a score: to hundredths, a tie to the even neighbour
RoundScore(x) ==
    LET q == x \div 100000
        r == x % 100000
    IN  IF r > 50000 \/ (r = 50000 /\ q % 2 = 1) THEN q + 1 ELSE q

\* round(x, 2) of a distance in metres: to 1/100 km
RoundDistance(x) ==
    LET q == x \div 10
        r == x % 10
    IN  IF r > 5 \/ (r = 5 /\ q % 2 = 1) THEN q + 1 ELSE q

\* lines 76-89
MatchedDonors(top_donors) ==
    [i \in 1..Len(top_donors) |->
        LET donor == top_donors[i] IN
        [donor_id |-> donor.donor_id,
         blood_type |-> donor.blood_type,
         matching_score |-> RoundScore(donor.matching_score),
         distance_km |-> RoundDistance(donor.distance_km),
         location |-> [latitude |-> donor.location_lat,
                       longitude |-> donor.location_lng],
         last_donation_date |-> donor.last_donation_date,
         is_available |-> (donor.is_available # 0)]]

----------------------------------------------------------------------------
(* app.py: match_emergency, the handler of POST /api/v1/match/emergency *)

\* line 181
required == <<"hospital_id", "blood_type_needed", "units_needed", "location",
              "urgency_level">>

\* lines 182-187: the first required field that is not in data, 0 if none
FirstMissing(data) ==
    LET missing == {i \in 1..Len(required) : required[i] \notin data.fields}
    IN  IF missing = {} THEN 0
        ELSE CHOOSE i \in missing : \A j \in missing : i <= j

ErrorResponse(status, message, field) ==
    [status |-> status, kind |-> "error", message |-> message, field |-> field,
     matched_donors |-> <<>>, total_matches |-> 0, urgency_level |-> "",
     request_id |-> 0]

\* lines 42-47 and 198-202
EmptyResult(clock) ==
    [status |-> 200, kind |-> "success", message |-> "No available donors found",
     field |-> "", matched_donors |-> <<>>, total_matches |-> 0,
     urgency_level |-> "", request_id |-> clock]

\* lines 91-96 and 198-202
MatchResult(matched_donors, urgency_level, clock) ==
    [status |-> 200, kind |-> "success", message |-> "", field |-> "",
     matched_donors |-> matched_donors, total_matches |-> Len(matched_donors),
     urgency_level |-> urgency_level, request_id |-> clock]

\* the JSON bodies the model sends
HospitalLat == 3004
HospitalLng == 3123

GoodLocation ==
    [keys |-> {"latitude", "longitude"}, latitude |-> HospitalLat,
     longitude |-> HospitalLng]
\* {"lat": .., "lon": ..}: no key 'latitude'
BadLocation ==
    [keys |-> {"lat", "lon"}, latitude |-> HospitalLat, longitude |-> HospitalLng]

Body(fields, blood_type, units, location, urgency) ==
    [kind |-> "json", fields |-> fields, hospital_id |-> "H001",
     blood_type_needed |-> blood_type, units_needed |-> units,
     location |-> location, urgency_level |-> urgency]

AllFields == Range(required)

AbsentBody == Body({}, "", 0, BadLocation, "") 

RequestTypes == {"O+", "A+", "XX"}
RequestUnits == {-1, 0, 1, 6}
RequestUrgencies == {"CRITICAL", "MEDIUM"}

Requests ==
    {Body(AllFields, bt, u, GoodLocation, ur) :
        bt \in RequestTypes, u \in RequestUnits, ur \in RequestUrgencies}
    \cup {Body(AllFields, "O+", 1, BadLocation, "MEDIUM")}
    \cup {Body(AllFields \ {f}, "O+", 1, GoodLocation, "MEDIUM") : f \in AllFields}
    \cup {Body({}, "O+", 1, GoodLocation, "MEDIUM")}
    \cup {[AbsentBody EXCEPT !.kind = "absent"]}

\* A match that takes the donors it returns out of the pool.
ReserveMatched(table, matched_donors) ==
    [i \in 1..Len(table) |->
        IF \E j \in 1..Len(matched_donors) :
               matched_donors[j].donor_id = table[i].donor_id
        THEN [table[i] EXCEPT !.is_available = 0]
        ELSE table[i]]

\* model2_matching.py lines 27-39: the connection of match_donors runs one
\* SELECT and is closed; nothing is written back for the donors returned
DonorsAfterMatch(table, matched_donors) == table

MatchEmergency ==
    /\ req = NoRequest
    /\ \E data \in Requests :
        /\ req' = data
        /\ IF data.kind = "absent"
           THEN \* line 183: `field not in None` raises TypeError
                /\ resp' = ErrorResponse(500, "TypeError", "")
                /\ ranked' = <<>>
           ELSE IF FirstMissing(data) # 0
           THEN /\ resp' = ErrorResponse(400, "Missing required field",
                                         required[FirstMissing(data)])
                /\ ranked' = <<>>
           ELSE LET compatible_types ==
                        _get_compatible_blood_types(data.blood_type_needed)
                    donors_df == read_sql(donors, compatible_types)
                IN  IF IsEmpty(donors_df)
                    THEN /\ resp' = EmptyResult(now)
                         /\ ranked' = <<>>
                    ELSE IF "latitude" \notin data.location.keys
                            \/ "longitude" \notin data.location.keys
                    THEN \* lines 50-51: KeyError
                         /\ resp' = ErrorResponse(500, "KeyError", "")
                         /\ ranked' = <<>>
                    ELSE \E sorted \in sort_values(
                                AddScores(donors_df, data.location,
                                          data.blood_type_needed,
                                          data.urgency_level, now)) :
                            /\ ranked' = sorted
                            /\ resp' = MatchResult(
                                   MatchedDonors(
                                       head(sorted, Min(10, data.units_needed * 2))),
                                   data.urgency_level, now)
    /\ donors' = DonorsAfterMatch(donors, resp'.matched_donors)
    /\ UNCHANGED <<history_tables, inventory, now, call, conn, lock, inv_resp>>

\* The rows of table donors (import_data.py, lines 29-35) the model draws
\* from: a type, one of two places and histories, available or not.
DonorRow(blood_type, lat, last_donation_date, is_available) ==
    [blood_type |-> blood_type, location_lat |-> lat,
     location_lng |-> HospitalLng, last_donation_date |-> last_donation_date,
     is_available |-> is_available]

DonorKinds ==
    {DonorRow(bt, place[1], place[2], av) :
        bt \in {"O+", "A+"},
        place \in {<<HospitalLat, DateText(2024, 1, 15)>>,
                   <<HospitalLat + 50, NullDate>>},
        av \in {0, 1}}

\* BulkDonors available O- donors, 24 km to 47 km and more away, each at a
\* distance of its own
BulkRows(n) ==
    [j \in 1..n |-> DonorRow("O-", HospitalLat + 20 + 2 * j, DateText(2024, 1, 15), 1)]

\* donor_id is the primary key: the model numbers the rows
WithIds(rows) ==
    [i \in 1..Len(rows) |->
        [donor_id |-> i, blood_type |-> rows[i].blood_type,
         location_lat |-> rows[i].location_lat,
         location_lng |-> rows[i].location_lng,
         last_donation_date |-> rows[i].last_donation_date,
         is_available |-> rows[i].is_available]]

DonorTables ==
    {WithIds(s) : s \in UNION {[1..n -> DonorKinds] : n \in 0..MaxDonors}}
    \cup {WithIds(s \o BulkRows(BulkDonors)) :
            s \in UNION {[1..n -> DonorKinds] : n \in 0..(MaxDonors - 1)}}

InitMatch ==
    /\ donors \in DonorTables
    /\ inventory = {}
    /\ now = 0
    /\ req = NoRequest
    /\ ranked = <<>>
    /\ resp = NoResponse
    /\ call = NoCall
    /\ conn = [t \in Threads |-> IdleConn]
    /\ lock = NoThread
    /\ inv_resp = NoResponse
    /\ blood_usage_history = <<>>
    /\ inventory_movements = <<>>
    /\ events = <<>>

\* the response is sent; the handler's locals are gone
MatchEmergencyReturn ==
    /\ req # NoRequest
    /\ req.kind \in {"json", "absent"}
    /\ req' = NoRequest
    /\ ranked' = <<>>
    /\ resp' = NoResponse
    /\ UNCHANGED <<history_tables, donors, inventory, now, call, conn, lock, inv_resp>>

NextMatch == MatchEmergency \/ MatchEmergencyReturn

SpecMatch == InitMatch /\ [][NextMatch]_vars

----------------------------------------------------------------------------
(* import_data.py: table blood_inventory, PRIMARY KEY (hospital_id,         *)
(* blood_type); app.py: update_inventory and get_inventory.                 *)
(* last_updated holds datetime.now().isoformat(): the model keeps the clock *)
(* value, and the order of the texts is the order of the clock values.      *)

InventoryRow(hospital_id, blood_type, current_units, last_updated) ==
    [hospital_id |-> hospital_id, blood_type |-> blood_type,
     current_units |-> current_units, last_updated |-> last_updated]

\* the rows of the table that collide with the key on the primary key
Conflicts(table, hospital_id, blood_type) ==
    {r \in table : r.hospital_id = hospital_id /\ r.blood_type = blood_type}

\* The same write as a plain INSERT into a table without the primary key.
InsertAlways(table, hospital_id, blood_type, current_units, ts_insert, ts_update) ==
    table \cup {InventoryRow(hospital_id, blood_type, current_units, ts_insert)}

\* The same statement with ON CONFLICT ... DO NOTHING.
InsertOrIgnore(table, hospital_id, blood_type, current_units, ts_insert, ts_update) ==
    IF Conflicts(table, hospital_id, blood_type) = {}
    THEN table \cup {InventoryRow(hospital_id, blood_type, current_units, ts_insert)}
    ELSE table

\* app.py lines 476-488: INSERT ... ON CONFLICT(hospital_id, blood_type) DO
\* UPDATE SET current_units = ?, last_updated = ?
Upsert(table, hospital_id, blood_type, current_units, ts_insert, ts_update) ==
    IF Conflicts(table, hospital_id, blood_type) = {}
    THEN table \cup {InventoryRow(hospital_id, blood_type, current_units, ts_insert)}
    ELSE {IF r \in Conflicts(table, hospital_id, blood_type)
          THEN [r EXCEPT !.current_units = current_units,
                         !.last_updated = ts_update]
          ELSE r : r \in table}

\* app.py lines 430-441: SELECT * FROM blood_inventory WHERE 1=1 [AND
\* hospital_id = ?] [AND blood_type = ?]; "" stands for a filter not given
\* (an empty parameter is not applied either)
SelectInventory(table, hospital_id, blood_type) ==
    {r \in table :
        /\ (hospital_id # "" => r.hospital_id = hospital_id)
        /\ (blood_type # "" => r.blood_type = blood_type)}

\* bodies of POST /inventory/update
InventoryBody(kind, hospital_id, blood_type, current_units) ==
    [kind |-> kind, hospital_id |-> hospital_id, blood_type |-> blood_type,
     current_units |-> current_units]

UpdateTypes == {"O+"}
\* line 484: data['current_units'] is bound as it came, unchecked
UpdateUnits == {-3, 7, 45}

UpdateBodies ==
    {InventoryBody("json", "H001", bt, u) : bt \in UpdateTypes, u \in UpdateUnits}
    \cup {InventoryBody("no_current_units", "H001", "O+", 0),
          InventoryBody("bad_units", "H001", "O+", 0),
          InventoryBody("absent", "", "", 0)}

Conn(pc, data, ts_insert, ts_update, txn, status, message) ==
    [pc |-> pc, data |-> data, ts_insert |-> ts_insert, ts_update |-> ts_update,
     txn |-> txn, status |-> status, message |-> message]

\* lines 470-485: get_json, connect, and the parameters up to the first
\* datetime.now(); a body without a field raises before any clock is read
UpdateBegin(t) ==
    /\ conn[t].pc = "idle"
    /\ \E data \in UpdateBodies :
          conn' = [conn EXCEPT ![t] =
                      IF data.kind \in {"json", "bad_units"}
                      THEN Conn("args", data, now, 0, {}, 0, "")
                      ELSE IF data.kind = "absent"
                      THEN Conn("done", data, 0, 0, {}, 500, "TypeError")
                      ELSE Conn("done", data, 0, 0, {}, 500, "KeyError")]
    /\ UNCHANGED <<history_tables, donors, inventory, now, req, ranked, resp, call, lock, inv_resp>>

\* lines 486-487: the second datetime.now()
UpdateReadClock(t) ==
    /\ conn[t].pc = "args"
    /\ conn' = [conn EXCEPT ![t].pc = "execute", ![t].ts_update = now]
    /\ UNCHANGED <<history_tables, donors, inventory, now, req, ranked, resp, call, lock, inv_resp>>

\* lines 476-488: cursor.execute opens the transaction, takes the write lock
\* of the database and runs the statement in it
UpdateExecute(t) ==
    /\ conn[t].pc = "execute"
    /\ conn[t].data.kind = "json"
    /\ lock = NoThread
    /\ lock' = t
    /\ conn' = [conn EXCEPT ![t].pc = "commit",
                            ![t].txn = Upsert(inventory, conn[t].data.hospital_id,
                                              conn[t].data.blood_type,
                                              conn[t].data.current_units,
                                              conn[t].ts_insert, conn[t].ts_update)]
    /\ UNCHANGED <<history_tables, donors, inventory, now, req, ranked, resp, call, inv_resp>>

\* line 476 while another connection holds the write lock for longer than
\* the busy timeout of sqlite3.connect: OperationalError, answered 500
UpdateBusy(t) ==
    /\ conn[t].pc = "execute"
    /\ conn[t].data.kind = "json"
    /\ lock # NoThread
    /\ lock # t
    /\ conn' = [conn EXCEPT ![t] = Conn("done", conn[t].data, 0, 0, {}, 500,
                                             "database is locked")]
    /\ UNCHANGED <<history_tables, donors, inventory, now, req, ranked, resp, call, lock, inv_resp>>

\* line 476 with a current_units that sqlite3 cannot bind (a JSON object or
\* array): the statement is not run, no lock is taken, answered 500
UpdateBindError(t) ==
    /\ conn[t].pc = "execute"
    /\ conn[t].data.kind = "bad_units"
    /\ conn' = [conn EXCEPT ![t] = Conn("done", conn[t].data, 0, 0, {}, 500,
                                             "Error binding parameter")]
    /\ UNCHANGED <<history_tables, donors, inventory, now, req, ranked, resp, call, lock, inv_resp>>

\* A connection dropped with its transaction published all the same.
KeepTransaction(table, txn) == txn

\* lines 499-503: the handler leaves with the connection not committed; the
\* connection is dropped and SQLite rolls its transaction back
Rollback(table, txn) == table

\* line 490 while a reader holds its shared lock for longer than the busy
\* timeout: conn.commit() raises OperationalError, answered 500
UpdateCommitBusy(t) ==
    /\ conn[t].pc = "commit"
    /\ lock = t
    /\ inventory' = Rollback(inventory, conn[t].txn)
    /\ lock' = NoThread
    /\ conn' = [conn EXCEPT ![t] = Conn("done", conn[t].data, 0, 0, {}, 500,
                                             "database is locked")]
    /\ UNCHANGED <<history_tables, donors, now, req, ranked, resp, call, inv_resp>>

\* lines 490-497: conn.commit() publishes the transaction and frees the lock
UpdateCommit(t) ==
    /\ conn[t].pc = "commit"
    /\ lock = t
    /\ inventory' = conn[t].txn
    /\ lock' = NoThread
    /\ conn' = [conn EXCEPT ![t] = Conn("done", conn[t].data, 0, 0, {}, 200,
                                             "Inventory updated successfully")]
    /\ UNCHANGED <<history_tables, donors, now, req, ranked, resp, call, inv_resp>>

\* the response is sent
UpdateReturn(t) ==
    /\ conn[t].pc = "done"
    /\ conn' = [conn EXCEPT ![t] = IdleConn]
    /\ UNCHANGED <<history_tables, donors, inventory, now, req, ranked, resp, call, lock, inv_resp>>

\* app.py lines 419-449: GET /inventory
ReadFilters == {<<"", "">>, <<"H001", "O+">>}

GetInventory ==
    /\ inv_resp = NoResponse
    /\ \E f \in ReadFilters :
          LET rows == SelectInventory(inventory, f[1], f[2]) IN
          inv_resp' = [status |-> 200, kind |-> "success", hospital_id |-> f[1],
                       blood_type |-> f[2], inventory |-> rows,
                       total_count |-> Cardinality(rows)]
    /\ UNCHANGED <<history_tables, donors, inventory, now, req, ranked, resp, call, conn, lock>>

GetInventoryReturn ==
    /\ inv_resp # NoResponse
    /\ inv_resp' = NoResponse
    /\ UNCHANGED <<history_tables, donors, inventory, now, req, ranked, resp, call, conn, lock>>

\* time passes
Tick ==
    /\ now < MaxClock
    /\ now' = now + 1
    /\ UNCHANGED <<history_tables, donors, inventory, req, ranked, resp, call, conn, lock, inv_resp>>

\* the table as imported (import_data.py lines 72-74), written before the
\* server started: the row of another hospital, with or without the row of
\* the key the requests update
InitInventory ==
    /\ donors = <<>>
    /\ inventory \in {{InventoryRow("H002", "A+", 28, 0)},
                      {InventoryRow("H002", "A+", 28, 0),
                       InventoryRow("H001", "O+", 20, 0)}}
    /\ now = 0
    /\ req = NoRequest
    /\ ranked = <<>>
    /\ resp = NoResponse
    /\ call = NoCall
    /\ conn = [t \in Threads |-> IdleConn]
    /\ lock = NoThread
    /\ inv_resp = NoResponse
    /\ blood_usage_history = <<>>
    /\ inventory_movements = <<>>
    /\ events = <<>>

NextInventory ==
    \/ \E t \in Threads : UpdateBegin(t)
    \/ \E t \in Threads : UpdateReadClock(t)
    \/ \E t \in Threads : UpdateExecute(t)
    \/ \E t \in Threads : UpdateBusy(t)
    \/ \E t \in Threads : UpdateBindError(t)
    \/ \E t \in Threads : UpdateCommitBusy(t)
    \/ \E t \in Threads : UpdateCommit(t)
    \/ \E t \in Threads : UpdateReturn(t)
    \/ GetInventory
    \/ GetInventoryReturn
    \/ Tick

\* requests served by the threads of app.run, in any interleaving
SpecInventory == InitInventory /\ [][NextInventory]_vars

\* One client: a request is sent when the previous one has been answered.
NoneInFlight == (\A t \in Threads : conn[t].pc = "idle") /\ inv_resp = NoResponse

NextSerial ==
    \/ \E t \in Threads : NoneInFlight /\ UpdateBegin(t)
    \/ \E t \in Threads : UpdateReadClock(t)
    \/ \E t \in Threads : UpdateExecute(t)
    \/ \E t \in Threads : UpdateBindError(t)
    \/ \E t \in Threads : UpdateCommit(t)
    \/ \E t \in Threads : UpdateReturn(t)
    \/ (NoneInFlight /\ GetInventory)
    \/ GetInventoryReturn
    \/ Tick

SpecSerial == InitInventory /\ [][NextSerial]_vars

----------------------------------------------------------------------------
(* Claims about /inventory/update and /inventory *)

\* thread t's transaction is committed by the step
Commits(t) == conn[t].pc = "commit" /\ conn'[t].pc = "done" /\ conn'[t].status = 200

UniqueKeys(table) ==
    \A r1, r2 \in table :
        (r1.hospital_id = r2.hospital_id /\ r1.blood_type = r2.blood_type) => r1 = r2

\* C9: under any interleaving of concurrent /inventory/update requests on the
\* same (hospital_id, blood_type), each update is applied as one atomic
\* insert-or-update: the store never holds two rows for the same key; no
\* update with a well-formed body fails because the row exists already (the
\* only failure left is the busy timeout of the write lock); every commit
\* leaves the key's row with the current_units of the committing request and
\* no other step changes the table, so that after all requests finish the row
\* holds the value written by one of them.  Checked under SpecInventory.
C9_AtomicUpsert ==
    /\ UniqueKeys(inventory)
    /\ [][ /\ UniqueKeys(inventory')
           /\ \A t \in Threads :
                  (conn'[t].pc = "done" /\ conn'[t].data.kind = "json"
                       /\ conn'[t].status # 200)
                      => conn'[t].message = "database is locked"
           /\ \A t \in Threads :
                  Commits(t) =>
                      \E r \in inventory' :
                          /\ Conflicts(inventory', conn[t].data.hospital_id,
                                       conn[t].data.blood_type) = {r}
                          /\ r.current_units = conn[t].data.current_units
           /\ (\A t \in Threads : ~Commits(t)) => inventory' = inventory
         ]_vars

\* C9 witness: two requests race to write the same key with different
\* values while the table has no row for it: one holds its transaction open,
\* the other is about to execute its statement.
C9_Witness ==
    \E t, u \in Threads :
        /\ t # u
        /\ conn[t].pc = "commit"
        /\ conn[u].pc = "execute"
        /\ conn[t].data.blood_type = conn[u].data.blood_type
        /\ conn[t].data.hospital_id = conn[u].data.hospital_id
        /\ conn[t].data.current_units # conn[u].data.current_units
        /\ Conflicts(inventory, conn[t].data.hospital_id, conn[t].data.blood_type) = {}

C16_FailureWritesNothing ==
    [][ /\ \A t \in Threads :
               (conn[t].pc # "done" /\ conn'[t].pc = "done" /\ conn'[t].status # 200)
                   => /\ conn'[t].status = 500
                      /\ conn'[t].message # ""
                      /\ inventory' = inventory
        /\ inventory' # inventory =>
               \E t \in Threads : /\ conn[t].pc # "done"
                                  /\ conn'[t].pc = "done"
                                  /\ conn'[t].status = 200
      ]_vars

\* C16 witness: a well-formed update of a key that has no row was answered
\* 500 after its statement had run (no other request is in flight any more),
\* and the table still has no row for the key.
C16_Witness ==
    \E t \in Threads :
        /\ conn[t].pc = "done"
        /\ conn[t].status = 500
        /\ conn[t].data.kind = "json"
        /\ conn[t].message = "database is locked"
        /\ \A u \in Threads \ {t} : conn[u].pc = "idle"
        /\ lock = NoThread
        /\ Conflicts(inventory, conn[t].data.hospital_id, conn[t].data.blood_type) = {}

\* C11: in every reachable state of the store, after any sequence of
\* /inventory/update requests with arbitrary bodies, every inventory record
\* has current_units >= 0.  Checked under SpecInventory.
C11_UnitsNonNegative == \A r \in inventory : r.current_units >= 0

----------------------------------------------------------------------------
(* Claims about match_donors and /match/emergency, checked under SpecMatch *)

\* a request whose body passed the required-field check has been answered
Answered == req.kind = "json" /\ FirstMissing(req) = 0 /\ resp.status # 0

\* the rows of the store that are available and of a compatible type
Candidates ==
    {i \in 1..Len(donors) :
        /\ donors[i].is_available = 1
        /\ donors[i].blood_type \in _get_compatible_blood_types(req.blood_type_needed)}

ReturnedIds == {resp.matched_donors[i].donor_id : i \in 1..Len(resp.matched_donors)}

\* the score of the store's row i for the request, before rounding
RowScore(i) ==
    _calculate_matching_score(
        donors[i].blood_type, req.blood_type_needed,
        _haversine_distance(req.location.latitude, req.location.longitude,
                            donors[i].location_lat, donors[i].location_lng),
        donors[i].last_donation_date, req.urgency_level, now)

\* C2 (as claimed): for every units_needed, 0 and negative values included,
\* match_donors returns exactly the first min(10, units_needed*2) rows of the
\* ranked list, or all of them when fewer exist; matched_donors never holds
\* more than 10 entries and total_matches is its length.
C2_FirstRankedUpToCap ==
    (Answered /\ resp.status = 200) =>
        LET n == Min(10, req.units_needed * 2)
            k == Min(Len(ranked), Max(n, 0))
        IN  /\ Len(resp.matched_donors) = k
            /\ \A i \in 1..Len(resp.matched_donors) :
                   i <= Len(ranked)
                   /\ resp.matched_donors[i].donor_id = ranked[i].donor_id
            /\ Len(resp.matched_donors) <= 10
            /\ resp.total_matches = Len(resp.matched_donors)

\* C3: every donor returned by match_donors is flagged available in the store
\* and has a blood type in the compatible-donor set of the requested type.
C3_OnlyAvailableCompatible ==
    (Answered /\ resp.status = 200) =>
        \A e \in Range(resp.matched_donors) :
            \E i \in 1..Len(donors) :
                /\ donors[i].donor_id = e.donor_id
                /\ donors[i].is_available = 1
                /\ donors[i].blood_type
                       \in _get_compatible_blood_types(req.blood_type_needed)
                /\ e.blood_type = donors[i].blood_type

\* C3 witness: donors were returned from a store that also holds an
\* unavailable donor of a compatible type and an available donor of an
\* incompatible type.
C3_Witness ==
    /\ Answered /\ resp.status = 200
    /\ Len(resp.matched_donors) >= 1
    /\ \E i \in 1..Len(donors) :
           /\ donors[i].is_available = 0
           /\ donors[i].blood_type \in _get_compatible_blood_types(req.blood_type_needed)
    /\ \E i \in 1..Len(donors) :
           /\ donors[i].is_available = 1
           /\ donors[i].blood_type \notin _get_compatible_blood_types(req.blood_type_needed)

\* C4: matched_donors is ordered by non-increasing matching score (as
\* returned, rounded, and as computed), and no candidate left out by the
\* truncation scores strictly higher than a returned one.
C4_RankedByScore ==
    (Answered /\ resp.status = 200) =>
        /\ \A i, j \in 1..Len(resp.matched_donors) :
               i < j =>
                   /\ resp.matched_donors[i].matching_score
                          >= resp.matched_donors[j].matching_score
                   /\ RowScore(resp.matched_donors[i].donor_id)
                          >= RowScore(resp.matched_donors[j].donor_id)
        /\ \A c \in Candidates \ ReturnedIds :
               \A r \in ReturnedIds : RowScore(c) <= RowScore(r)

\* C4 witness: two donors of different scores were returned, the higher
\* first, and a candidate scoring lower than both was left out.
C4_Witness ==
    /\ Answered /\ resp.status = 200
    /\ Len(resp.matched_donors) = 2
    /\ RowScore(resp.matched_donors[1].donor_id)
           > RowScore(resp.matched_donors[2].donor_id)
    /\ resp.matched_donors[1].donor_id > resp.matched_donors[2].donor_id
    /\ \E c \in Candidates \ ReturnedIds :
           RowScore(c) < RowScore(resp.matched_donors[2].donor_id)

\* C7: when the store holds no available donor of a compatible type,
\* match_donors returns normally with matched_donors empty, total_matches 0
\* and an explanatory message, and /match/emergency answers 200.
C7_NoDonorsIsSuccess ==
    (Answered /\ Candidates = {}) =>
        /\ resp.status = 200
        /\ resp.kind = "success"
        /\ resp.matched_donors = <<>>
        /\ resp.total_matches = 0
        /\ resp.message = "No available donors found"

\* C7 witness: the store holds donors, none of them an available compatible
\* one, and the request (here one whose location has no 'latitude' key, which
\* is not read on this path) was answered 200 with the message.
C7_Witness ==
    /\ Answered /\ Candidates = {}
    /\ Len(donors) >= 2
    /\ req.location = BadLocation
    /\ resp.status = 200
    /\ resp.message = "No available donors found"

\* C8 (as claimed): candidates of equal matching score keep the order in
\* which the store returned them (the ranking is a stable sort).
C8_TiesKeepStoreOrder ==
    \A i, j \in 1..Len(ranked) :
        (i < j /\ ranked[i].matching_score = ranked[j].matching_score)
            => ranked[i].donor_id < ranked[j].donor_id

\* C15: a POST /match/emergency whose body lacks one of the required fields
\* is answered 400 with an error naming the (first) missing field, and the
\* matching engine is not called; this for every body, the empty JSON object
\* and an absent JSON body included.  Checked under SpecMatch.
C15_MissingFieldIs400 ==
    (req.kind \in {"json", "absent"} /\ resp # NoResponse
        /\ (req.kind = "absent" \/ FirstMissing(req) # 0)) =>
        /\ resp.status = 400
        /\ resp.message = "Missing required field"
        /\ resp.field \in Range(required) \ req.fields
        /\ ranked = <<>>

----------------------------------------------------------------------------
(* model1_prediction.py: PredictionEngine.                                  *)
(* Averages and quotients are exact fractions [n, d] with d > 0 where the   *)
(* code has floats; risk_score is returned in 1/100 and avg_daily_usage in  *)
(* 1/100 (both are round(x, 2) in the code).                                *)

Rat(n, d) == [n |-> n, d |-> d]

\* round(n / d) to the nearest integer, a tie to the even neighbour (d > 0)
RoundRat(n, d) ==
    LET q == n \div d
        r == n % d
    IN  IF 2 * r > d \/ (2 * r = d /\ q % 2 = 1) THEN q + 1 ELSE q

\* round(n / d) where the float of the code decides an exact tie: the value the
\* code rounds is the nearest float of n / d, which lies on either side of
\* the halfway point (round(0.675, 2) is 0.67, round(0.945, 2) is 0.95);
\* tie_up says on which
RoundTie(n, d, tie_up) ==
    LET q == n \div d
        r == n % d
    IN  IF 2 * r > d \/ (2 * r = d /\ tie_up) THEN q + 1 ELSE q

\* int(n / d): the fraction cut off, towards zero (d > 0)
IntRat(n, d) == IF n >= 0 THEN n \div d ELSE -((-n) \div d)

\* lines 84-85: if avg_daily_usage == 0: avg_daily_usage = 1
UsageOrOne(avg_daily_usage) ==
    IF avg_daily_usage.n = 0 THEN Rat(1, 1) ELSE avg_daily_usage

\* The tiers with strict comparisons.
RiskLevelStrict(p, q) ==
    IF p < 3 * q THEN "CRITICAL"
    ELSE IF p < 7 * q THEN "HIGH"
    ELSE IF p < 14 * q THEN "MEDIUM"
    ELSE "LOW"

\* lines 90-101, the tier of days_remaining = p / q (q > 0)
RiskLevel(p, q) ==
    IF p <= 3 * q THEN "CRITICAL"
    ELSE IF p <= 7 * q THEN "HIGH"
    ELSE IF p <= 14 * q THEN "MEDIUM"
    ELSE "LOW"

\* lines 90-101, risk_score for days_remaining = p / q (q > 0), as a fraction
\* of thousandths
RiskScore(p, q) ==
    IF p <= 3 * q THEN Rat(Min(900 * q + (3 * q - p) * 33, 1000 * q), q)
    ELSE IF p <= 7 * q THEN Rat(600 * q + (7 * q - p) * 75, q)
    ELSE IF p <= 14 * q THEN Rat(300 * q + (14 * q - p) * 43, q)
    ELSE Rat(Max(100 * p, Min(300 * p, 30000 * q)), p)

NoDate == [kind |-> "null"]

\* The shortage date given up to and including 30 days.
HasShortageDateInclusive(p, q) == p <= 30 * q

\* line 104: days_remaining < 30
HasShortageDate(p, q) == p < 30 * q

\* lines 81-120.  clock is the day of datetime.now(), taken at 00:00: the
\* date of now + timedelta(days_remaining) is then the clock plus the whole
\* days of days_remaining, rounded down.
_calculate_risk(current_units, avg_daily_usage, hospital_id, blood_type, clock, tie_up) ==
    LET usage == UsageOrOne(avg_daily_usage)
        p == current_units * usage.d
        q == usage.n
        score == RiskScore(p, q)
    IN  [hospital_id |-> hospital_id,
         blood_type |-> blood_type,
         current_units |-> current_units,
         avg_daily_usage |-> RoundRat(100 * usage.n, usage.d),
         risk_score |-> RoundTie(score.n, 10 * score.d, tie_up),
         risk_level |-> RiskLevel(p, q),
         expected_shortage_date |->
             IF HasShortageDate(p, q)
             THEN [kind |-> "day", day |-> clock + (p \div q)]
             ELSE NoDate,
         days_to_shortage |->
             IF HasShortageDate(p, q)
             THEN [kind |-> "int", value |-> IntRat(p, q)]
             ELSE NoDate]

\* import_data.py lines 23-27: a row of blood_usage_history.  date_of_usage
\* is the day of its 'YYYY-MM-DD' text on the model's clock; texts of that
\* form compare as their days do.
UsageRow(hospital_id, blood_type, date_of_usage, units_used) ==
    [hospital_id |-> hospital_id, blood_type |-> blood_type,
     date_of_usage |-> date_of_usage, units_used |-> units_used]

\* `if hospital_id:` / `if blood_type:`: a filter that is None or "" is not
\* applied
KeyFilter(row, hospital_id, blood_type) ==
    /\ (hospital_id # "" => row.hospital_id = hospital_id)
    /\ (blood_type # "" => row.blood_type = blood_type)

RECURSIVE SumUnits(_, _)
\* SUM(units_used) over the rows `rows` (indices) of table
SumUnits(table, rows) ==
    IF rows = {} THEN 0
    ELSE LET i == CHOOSE j \in rows : TRUE
         IN  table[i].units_used + SumUnits(table, rows \ {i})

\* lines 42-59: AVG(units_used), COUNT(*) of the rows of the last `window`
\* days, GROUP BY hospital_id, blood_type
UsageGroups(table, hospital_id, blood_type, clock, window) ==
    LET rows == {i \in 1..Len(table) :
                    /\ table[i].date_of_usage >= clock - window
                    /\ KeyFilter(table[i], hospital_id, blood_type)}
        keys == {<<table[i].hospital_id, table[i].blood_type>> : i \in rows}
        of(k) == {i \in rows : table[i].hospital_id = k[1] /\ table[i].blood_type = k[2]}
    IN  {[hospital_id |-> k[1], blood_type |-> k[2],
          avg_daily_usage |-> Rat(SumUnits(table, of(k)), Cardinality(of(k))),
          days_of_data |-> Cardinality(of(k)),
          peak_usage |-> CHOOSE m \in {table[i].units_used : i \in of(k)} :
                             \A i \in of(k) : table[i].units_used <= m] : k \in keys}

\* the missing value of a left merge
NaN == Rat(0, 0)

\* The merge with how='inner': rows without a usage group are dropped.
MergeInner(inventory_df, usage_df) ==
    {[hospital_id |-> r.hospital_id, blood_type |-> r.blood_type,
      current_units |-> r.current_units, avg_daily_usage |-> g.avg_daily_usage] :
        <<r, g>> \in {x \in inventory_df \X usage_df :
                         /\ x[1].hospital_id = x[2].hospital_id
                         /\ x[1].blood_type = x[2].blood_type}}

\* line 64: pd.merge(inventory_df, usage_df, on=[hospital_id, blood_type],
\* how='left'): a row per inventory row and usage group of its key, and one
\* row with a missing usage where the key has no group.  The rows carry the
\* key, and the keys of blood_inventory are unique: a set holds them.
merge(inventory_df, usage_df) ==
    MergeInner(inventory_df, usage_df)
    \cup {[hospital_id |-> r.hospital_id, blood_type |-> r.blood_type,
           current_units |-> r.current_units, avg_daily_usage |-> NaN] :
            r \in {x \in inventory_df :
                      \A g \in usage_df : g.hospital_id # x.hospital_id
                                          \/ g.blood_type # x.blood_type}}

\* line 65: fillna(0)
fillna(value) == IF value = NaN THEN Rat(0, 1) ELSE value

\* lines 22-79: the predictions for the merged rows; ties[row] is the side
\* row's risk_score falls to when it is an exact tie
predict_shortages(inventory_table, usage_table, hospital_id, blood_type, clock, ties) ==
    LET inventory_df == {r \in inventory_table : KeyFilter(r, hospital_id, blood_type)}
        usage_df == UsageGroups(usage_table, hospital_id, blood_type, clock, 30)
        merged == merge(inventory_df, usage_df)
    IN  {_calculate_risk(row.current_units, fillna(row.avg_daily_usage),
                         row.hospital_id, row.blood_type, clock,
                         ties[<<row.hospital_id, row.blood_type>>]) : row \in merged}

\* app.py lines 69-88 and 105-132: the responses of /predict/shortage and
\* /predict/risks
PredictionResponse(predictions) ==
    [status |-> 200, kind |-> "success", message |-> "",
     predictions |-> predictions, total_predictions |-> Cardinality(predictions)]

PredictionError(message) ==
    [status |-> 500, kind |-> "error", message |-> message,
     predictions |-> {}, total_predictions |-> 0]

\* bodies of POST /predict/shortage: none (not JSON: data = {}), a JSON
\* object with or without the filters, a JSON array
PredictBodies ==
    {[kind |-> "predict", body |-> b, hospital_id |-> f[1], blood_type |-> f[2],
      risk_level |-> ""] :
        b \in {"object"}, f \in {<<"", "">>, <<"H001", "">>, <<"H001", "O+">>,
                                 <<"H009", "">>}}
    \cup {[kind |-> "predict", body |-> b, hospital_id |-> "", blood_type |-> "",
           risk_level |-> ""] : b \in {"not_json", "array"}}

\* query strings of GET /predict/risks
RiskQueries ==
    {[kind |-> "risks", body |-> "args", hospital_id |-> h, blood_type |-> "",
      risk_level |-> l] : h \in {"", "H001"}, l \in {"", "critical", "LOW"}}

\* str.upper() of the risk levels the model sends
upper(s) == IF s = "critical" THEN "CRITICAL" ELSE s

\* the keys a request's predictions can have, for the choice of the ties
InventoryKeys == {<<r.hospital_id, r.blood_type>> : r \in inventory}

\* app.py lines 69-88: POST /predict/shortage
PredictShortage ==
    /\ req = NoRequest
    /\ \E data \in PredictBodies :
        /\ req' = data
        /\ IF data.body = "array"
           THEN \* line 71: a list has no get: AttributeError
                resp' = PredictionError("AttributeError")
           ELSE \E ties \in [InventoryKeys -> BOOLEAN] :
                   resp' = PredictionResponse(
                               predict_shortages(inventory, blood_usage_history,
                                                 data.hospital_id, data.blood_type,
                                                 now, ties))
    /\ UNCHANGED <<history_tables, donors, inventory, now, ranked, call, conn, lock,
                   inv_resp>>

\* app.py lines 105-132: GET /predict/risks
GetRisks ==
    /\ req = NoRequest
    /\ \E data \in RiskQueries :
        /\ req' = data
        /\ \E ties \in [InventoryKeys -> BOOLEAN] :
              LET predictions ==
                      predict_shortages(inventory, blood_usage_history,
                                        data.hospital_id, data.blood_type, now, ties)
              IN  resp' = PredictionResponse(
                              IF data.risk_level # ""
                              THEN {p \in predictions :
                                        p.risk_level = upper(data.risk_level)}
                              ELSE predictions)
    /\ UNCHANGED <<history_tables, donors, inventory, now, ranked, call, conn, lock,
                   inv_resp>>

\* the response is sent
PredictReturn ==
    /\ req # NoRequest
    /\ req.kind \in {"predict", "risks"}
    /\ req' = NoRequest
    /\ resp' = NoResponse
    /\ UNCHANGED <<history_tables, donors, inventory, now, ranked, call, conn, lock,
                   inv_resp>>

\* the rows import_data.py lines 78-84 put into blood_usage_history: 40 days
\* and 5 days old, for either key
UsageKinds ==
    {UsageRow(k[1], k[2], d, u) :
        k \in {<<"H001", "O+">>, <<"H002", "A+">>}, d \in {-40, -5}, u \in {0, 3, 4}}

UsageTables == UNION {[1..n -> UsageKinds] : n \in 0..MaxHistory}

\* blood_inventory as imported or updated: the row of (H001, O+) with one of
\* the units, or none, with or without the row of (H002, A+)
PredictInventories ==
    {a \cup b :
        a \in {{}} \cup {{InventoryRow("H001", "O+", u, 0)} :
                            u \in {-3, 0, 8, 15, 45, 100}},
        b \in {{}, {InventoryRow("H002", "A+", 28, 0)}}}

InitPredict ==
    /\ donors = <<>>
    /\ inventory \in PredictInventories
    /\ now = 0
    /\ req = NoRequest
    /\ ranked = <<>>
    /\ resp = NoResponse
    /\ call = NoCall
    /\ conn = [t \in Threads |-> IdleConn]
    /\ lock = NoThread
    /\ inv_resp = NoResponse
    /\ blood_usage_history \in UsageTables
    /\ inventory_movements = <<>>
    /\ events = <<>>

NextPredict == PredictShortage \/ GetRisks \/ PredictReturn

SpecPredict == InitPredict /\ [][NextPredict]_vars

----------------------------------------------------------------------------
(* model3_analytics.py: AnalyticsEngine.calculate_waste_rates and           *)
(* app.py: /analytics/waste.  Rates are exact fractions; the rates of the   *)
(* result are in 1/1000 (round(x, 3) in the code).                          *)

\* import_data.py lines 37-43: a row of inventory_movements; movement_date
\* is the day of its text on the model's clock
MovementRow(hospital_id, blood_type, units_collected, units_expired, movement_date) ==
    [hospital_id |-> hospital_id, blood_type |-> blood_type,
     units_collected |-> units_collected, units_used |-> 0,
     units_expired |-> units_expired, movement_date |-> movement_date]

\* an optional date parameter: `if start_date:` applies it when given
NoDay == [given |-> FALSE, day |-> 0]
Day(d) == [given |-> TRUE, day |-> d]

RECURSIVE SumField(_, _, _)
\* SUM(field) over the rows `rows` (indices) of table
SumField(table, rows, field) ==
    IF rows = {} THEN 0
    ELSE LET i == CHOOSE j \in rows : TRUE
         IN  table[i][field] + SumField(table, rows \ {i}, field)

\* lines 16-43: SUM(units_collected), SUM(units_expired) ... GROUP BY
\* hospital_id, blood_type over the rows the filters select
WasteGroups(table, hospital_id, blood_type, start_date, end_date) ==
    LET rows == {i \in 1..Len(table) :
                    /\ KeyFilter(table[i], hospital_id, blood_type)
                    /\ (start_date.given => table[i].movement_date >= start_date.day)
                    /\ (end_date.given => table[i].movement_date <= end_date.day)}
        keys == {<<table[i].hospital_id, table[i].blood_type>> : i \in rows}
        of(k) == {i \in rows : table[i].hospital_id = k[1] /\ table[i].blood_type = k[2]}
    IN  {[hospital_id |-> k[1], blood_type |-> k[2],
          total_collected |-> SumField(table, of(k), "units_collected"),
          total_expired |-> SumField(table, of(k), "units_expired")] : k \in keys}

\* The rate without the +1 in the denominator (collected is positive here).
WasteRateNoPlusOne(total_expired, total_collected) ==
    Rat(total_expired, Max(total_collected, 1))

\* line 54: total_expired / (total_collected + 1)
WasteRate(total_expired, total_collected) == Rat(total_expired, total_collected + 1)

\* lines 58-66: get_status, for the rate n / d
get_status(rate) ==
    IF 100 * rate.n < 5 * rate.d THEN "LOW"
    ELSE IF 100 * rate.n < 10 * rate.d THEN "ACCEPTABLE"
    ELSE IF 100 * rate.n < 20 * rate.d THEN "HIGH"
    ELSE "CRITICAL"

RECURSIVE SumRates(_)
\* the sum of the fractions of a set of groups, over their common denominator
SumRates(groups) ==
    IF groups = {} THEN Rat(0, 1)
    ELSE LET g == CHOOSE x \in groups : TRUE
             rest == SumRates(groups \ {g})
             r == WasteRate(g.total_expired, g.total_collected)
         IN  Rat(r.n * rest.d + rest.n * r.d, r.d * rest.d)

RECURSIVE SumGroups(_, _)
\* lines 81, 89, 90: df[field].sum()
SumGroups(groups, field) ==
    IF groups = {} THEN 0
    ELSE LET g == CHOOSE x \in groups : TRUE
         IN  g[field] + SumGroups(groups \ {g}, field)

\* line 250: the list, or the one message that all is well
RecommendationsOrDefault(recommendations) ==
    IF recommendations # {} THEN recommendations
    ELSE {[kind |-> "within_limits", hospital_id |-> "", blood_type |-> ""]}

\* The recommendations with the threshold of 0.15 included.
HighWasteInclusive(rate) == 100 * rate.n >= 15 * rate.d

\* line 237: waste_rate > 0.15
HighWaste(rate) == 100 * rate.n > 15 * rate.d

\* lines 233-250: a message per group above 0.15 (it names the group), one
\* more if the mean of the groups' rates is above 0.10
_generate_waste_recommendations(df) ==
    LET total == SumRates(df)
        high_waste == {g \in df : HighWaste(WasteRate(g.total_expired, g.total_collected))}
    IN  RecommendationsOrDefault(
            {[kind |-> "high_waste", hospital_id |-> g.hospital_id,
              blood_type |-> g.blood_type] : g \in high_waste}
            \cup (IF 10 * total.n > total.d * Cardinality(df)
                  THEN {[kind |-> "overall", hospital_id |-> "", blood_type |-> ""]}
                  ELSE {}))

\* lines 11-92; ties[key] and tie_overall are the sides the rounded rates
\* fall to when they are exact ties
calculate_waste_rates(table, hospital_id, blood_type, start_date, end_date, ties, tie_overall) ==
    LET df == WasteGroups(table, hospital_id, blood_type, start_date, end_date)
    IN  IF df = {}
        THEN [waste_rates |-> {}, overall_waste_rate |-> 0, recommendations |-> {}]
        ELSE LET all_expired == SumGroups(df, "total_expired")
                 all_collected == SumGroups(df, "total_collected")
             IN  [waste_rates |->
                      {[hospital_id |-> g.hospital_id, blood_type |-> g.blood_type,
                        waste_rate |->
                            RoundTie(1000 * WasteRate(g.total_expired, g.total_collected).n,
                                     WasteRate(g.total_expired, g.total_collected).d,
                                     ties[<<g.hospital_id, g.blood_type>>]),
                        units_expired |-> g.total_expired,
                        total_units |-> g.total_collected,
                        status |-> get_status(WasteRate(g.total_expired,
                                                        g.total_collected))] : g \in df},
                  overall_waste_rate |->
                      RoundTie(1000 * WasteRate(all_expired, all_collected).n,
                               WasteRate(all_expired, all_collected).d, tie_overall),
                  recommendations |-> _generate_waste_recommendations(df)]

\* app.py lines 285-308: the responses of /analytics/waste
WasteResponse(result) ==
    [status |-> 200, kind |-> "success", waste_rates |-> result.waste_rates,
     overall_waste_rate |-> result.overall_waste_rate,
     recommendations |-> result.recommendations]

\* query strings of GET /analytics/waste
WasteQueries ==
    {[kind |-> "waste", hospital_id |-> h, blood_type |-> "", start_date |-> s,
      end_date |-> e] :
        h \in {"", "H001"}, s \in {NoDay, Day(-30)}, e \in {NoDay, Day(-10)}}

\* the keys a request's groups can have, for the choice of the ties
MovementKeys ==
    {<<inventory_movements[i].hospital_id, inventory_movements[i].blood_type>> :
        i \in 1..Len(inventory_movements)}

\* app.py lines 257-308: GET /analytics/waste
GetWasteAnalysis ==
    /\ req = NoRequest
    /\ \E data \in WasteQueries, ties \in [MovementKeys -> BOOLEAN],
          tie_overall \in BOOLEAN :
        /\ req' = data
        /\ resp' = WasteResponse(
                       calculate_waste_rates(inventory_movements, data.hospital_id,
                                             data.blood_type, data.start_date,
                                             data.end_date, ties, tie_overall))
    /\ UNCHANGED <<history_tables, donors, inventory, now, ranked, call, conn, lock,
                   inv_resp>>

\* the response is sent
WasteReturn ==
    /\ req # NoRequest
    /\ req.kind = "waste"
    /\ req' = NoRequest
    /\ resp' = NoResponse
    /\ UNCHANGED <<history_tables, donors, inventory, now, ranked, call, conn, lock,
                   inv_resp>>

\* the rows import_data.py lines 104-112 put into inventory_movements: 40
\* days and 20 days old, for either key, with collected and expired units on
\* both sides of every threshold of the rate
MovementKinds ==
    {MovementRow(k[1], k[2], u[1], u[2], d) :
        k \in {<<"H001", "O+">>, <<"H002", "A+">>},
        u \in {<<0, 0>>, <<99, 1>>, <<19, 1>>, <<99, 10>>, <<99, 15>>,
               <<99, 20>>, <<250, 15>>},
        d \in {-40, -20}}

MovementTables == UNION {[1..n -> MovementKinds] : n \in 0..MaxMovements}

InitWaste ==
    /\ donors = <<>>
    /\ inventory = {}
    /\ now = 0
    /\ req = NoRequest
    /\ ranked = <<>>
    /\ resp = NoResponse
    /\ call = NoCall
    /\ conn = [t \in Threads |-> IdleConn]
    /\ lock = NoThread
    /\ inv_resp = NoResponse
    /\ blood_usage_history = <<>>
    /\ inventory_movements \in MovementTables
    /\ events = <<>>

NextWaste == GetWasteAnalysis \/ WasteReturn

SpecWaste == InitWaste /\ [][NextWaste]_vars

----------------------------------------------------------------------------
(* model3_analytics.py: AnalyticsEngine.forecast_demand and app.py:         *)
(* /analytics/forecast.  impact_level is in 1/10; the forecast of the       *)
(* result is in 1/10 (round(x, 1) in the code) and avg_daily_demand in      *)
(* 1/100.                                                                   *)

\* import_data.py lines 45-49: a row of events; event_date is the day of its
\* text on the model's clock
EventRow(event_name, event_date, impact_level) ==
    [event_name |-> event_name, event_date |-> event_date,
     impact_level |-> impact_level]

\* The events of the requested horizon instead of the next 30 days.
EventsInHorizon(table, clock, days) ==
    {i \in 1..Len(table) :
        table[i].event_date >= clock /\ table[i].event_date <= clock + days}

\* lines 124-128: event_date BETWEEN date('now') AND date('now', '+30 days'),
\* whatever the horizon `days` of the forecast
UpcomingEvents(table, clock, days) ==
    {i \in 1..Len(table) :
        table[i].event_date >= clock /\ table[i].event_date <= clock + 30}

RECURSIVE SumImpact(_, _)
\* the sum of impact_level - 1.0 over the events `rows`, in 1/10
SumImpact(table, rows) ==
    IF rows = {} THEN 0
    ELSE LET i == CHOOSE j \in rows : TRUE
         IN  (table[i].impact_level - 10) + SumImpact(table, rows \ {i})

\* lines 227-231
_calculate_trend(hospital_id, blood_type) == "STABLE"

\* lines 94-156; ties[key] is the side a forecast falls to when its rounding
\* is an exact tie
forecast_demand(usage_table, events_table, hospital_id, blood_type, days, clock, ties) ==
    LET df == UsageGroups(usage_table, hospital_id, blood_type, clock, 90)
        events_df == UpcomingEvents(events_table, clock, days)
    IN  {[hospital_id |-> row.hospital_id,
          blood_type |-> row.blood_type,
          avg_daily_demand |-> RoundRat(100 * row.avg_daily_usage.n,
                                        row.avg_daily_usage.d),
          days |-> days,
          forecast |->
              \* avg * days + sum of avg * (impact_level - 1.0), in 1/10
              RoundTie(row.avg_daily_usage.n
                           * (10 * days + SumImpact(events_table, events_df)),
                       row.avg_daily_usage.d,
                       ties[<<row.hospital_id, row.blood_type>>]),
          demand_trend |-> _calculate_trend(row.hospital_id, row.blood_type),
          confidence_level |-> IF row.days_of_data > 60 THEN 85 ELSE 65] : row \in df}

\* app.py lines 347-352
ForecastResponse(forecasts, days) ==
    [status |-> 200, kind |-> "success", forecasts |-> forecasts,
     forecast_period_days |-> days]

\* query strings of GET /analytics/forecast: days is 30 when not given
ForecastQueries ==
    {[kind |-> "forecast", hospital_id |-> h, blood_type |-> "", days |-> d] :
        h \in {"", "H001"}, d \in {0, 7, 30}}

\* the keys a request's forecasts can have, for the choice of the ties
UsageKeys ==
    {<<blood_usage_history[i].hospital_id, blood_usage_history[i].blood_type>> :
        i \in 1..Len(blood_usage_history)}

\* app.py lines 311-358: GET /analytics/forecast
GetDemandForecast ==
    /\ req = NoRequest
    /\ \E data \in ForecastQueries, ties \in [UsageKeys -> BOOLEAN] :
        /\ req' = data
        /\ resp' = ForecastResponse(
                       forecast_demand(blood_usage_history, events, data.hospital_id,
                                       data.blood_type, data.days, now, ties),
                       data.days)
    /\ UNCHANGED <<history_tables, donors, inventory, now, ranked, call, conn, lock,
                   inv_resp>>

\* the response is sent
ForecastReturn ==
    /\ req # NoRequest
    /\ req.kind = "forecast"
    /\ req' = NoRequest
    /\ resp' = NoResponse
    /\ UNCHANGED <<history_tables, donors, inventory, now, ranked, call, conn, lock,
                   inv_resp>>

\* usage rows 100 and 40 days old
ForecastUsageKinds ==
    {UsageRow("H001", "O+", d, u) : d \in {-100, -40}, u \in {3, 4}}
    \cup {UsageRow("H002", "A+", -40, 3)}

\* the rows import_data.py lines 114-120 put into events: yesterday, today,
\* in 30 days and in 31 days, raising demand by half or lowering it
EventKinds ==
    {EventRow("campaign", d, 15) : d \in {-1, 0, 30, 31}}
    \cup {EventRow("holiday", 7, 8)}

InitForecast ==
    /\ donors = <<>>
    /\ inventory = {}
    /\ now = 0
    /\ req = NoRequest
    /\ ranked = <<>>
    /\ resp = NoResponse
    /\ call = NoCall
    /\ conn = [t \in Threads |-> IdleConn]
    /\ lock = NoThread
    /\ inv_resp = NoResponse
    /\ blood_usage_history \in UNION {[1..n -> ForecastUsageKinds] : n \in 0..MaxHistory}
    /\ inventory_movements = <<>>
    /\ events \in UNION {[1..n -> EventKinds] : n \in 0..MaxEvents}

NextForecast == GetDemandForecast \/ ForecastReturn

SpecForecast == InitForecast /\ [][NextForecast]_vars

----------------------------------------------------------------------------
(* model3_analytics.py: AnalyticsEngine.generate_heatmap and app.py:        *)
(* /analytics/heatmap.  demand_score is in 1/100; current_units is an       *)
(* integer, so 1.0 - current_units / 50 is a whole number of hundredths.    *)

RECURSIVE SetToSeq(_)
\* the rows of a table in the order the SELECT scans them
SetToSeq(table) ==
    IF table = {} THEN <<>>
    ELSE LET r == CHOOSE x \in table : TRUE
         IN  <<r>> \o SetToSeq(table \ {r})

\* line 189: max(0.1, 1.0 - (current_units / 50))
DemandScore(current_units) == Max(10, 100 - 2 * current_units)

\* The tiers with the density thresholds included.
HeatmapRiskLevelInclusive(demand_score, donor_density) ==
    IF demand_score >= 90 \/ donor_density <= 5 THEN "CRITICAL"
    ELSE IF demand_score >= 75 \/ donor_density <= 10 THEN "HIGH"
    ELSE IF demand_score >= 50 THEN "MEDIUM"
    ELSE "LOW"

\* lines 195-202
HeatmapRiskLevel(demand_score, donor_density) ==
    IF demand_score >= 90 \/ donor_density < 5 THEN "CRITICAL"
    ELSE IF demand_score >= 75 \/ donor_density < 10 THEN "HIGH"
    ELSE IF demand_score >= 50 THEN "MEDIUM"
    ELSE "LOW"

\* lines 158-225.  bounds and blood_type are not used by the code.  The
\* location of an area is 30.0444 + RANDOM() * 0.1 of SQLite, a random
\* number the model does not follow.
generate_heatmap(inventory_table, donors_table, bounds, blood_type) ==
    LET hospitals_df == SetToSeq(inventory_table)
        donors_df == SelectSeq(donors_table, LAMBDA d : d.is_available = 1)
        donor_density == Len(donors_df)
        areas == [i \in 1..Len(hospitals_df) |->
                     [area_id |-> hospitals_df[i].hospital_id,
                      demand_score |-> DemandScore(hospitals_df[i].current_units),
                      donor_density |-> donor_density,
                      risk_level |->
                          HeatmapRiskLevel(DemandScore(hospitals_df[i].current_units),
                                           donor_density),
                      hospital_id |-> hospitals_df[i].hospital_id]]
    IN  [areas |-> areas,
         metadata |->
             [total_areas |-> Len(areas),
              high_risk_areas |->
                  Cardinality({i \in 1..Len(areas) :
                                  areas[i].risk_level \in {"HIGH", "CRITICAL"}})]]

\* app.py lines 402-406
HeatmapResponse(heatmap_data) ==
    [status |-> 200, kind |-> "success", areas |-> heatmap_data.areas,
     metadata |-> heatmap_data.metadata]

\* query strings of GET /analytics/heatmap: with or without the bounding box
\* and the blood type
HeatmapQueries ==
    {[kind |-> "heatmap", bounds |-> b, blood_type |-> bt] :
        b \in BOOLEAN, bt \in {"", "O+"}}

\* app.py lines 361-412: GET /analytics/heatmap
GetHeatmap ==
    /\ req = NoRequest
    /\ \E data \in HeatmapQueries :
        /\ req' = data
        /\ resp' = HeatmapResponse(
                       generate_heatmap(inventory, donors, data.bounds, data.blood_type))
    /\ UNCHANGED <<history_tables, donors, inventory, now, ranked, call, conn, lock,
                   inv_resp>>

\* the response is sent
HeatmapReturn ==
    /\ req # NoRequest
    /\ req.kind = "heatmap"
    /\ req' = NoRequest
    /\ resp' = NoResponse
    /\ UNCHANGED <<history_tables, donors, inventory, now, ranked, call, conn, lock,
                   inv_resp>>

\* donors: n available ones and one that is not, n on both sides of the
\* density thresholds
HeatmapDonorTables ==
    {WithIds([j \in 1..n |-> DonorRow("O+", HospitalLat, NullDate, 1)]
             \o <<DonorRow("A+", HospitalLat, NullDate, 0)>>) : n \in {0, 4, 5, 9, 10}}

\* blood_inventory: up to three rows, two of them of one hospital, with
\* units on both sides of every threshold of the demand score
HeatmapInventories ==
    {a \cup b \cup c :
        a \in {{}} \cup {{InventoryRow("H001", "O+", u, 0)} :
                            u \in {-3, 0, 5, 6, 12, 13, 25, 26, 45, 60}},
        b \in {{}} \cup {{InventoryRow("H001", "A+", u, 0)} : u \in {5, 13, 26}},
        c \in {{}, {InventoryRow("H002", "A+", 28, 0)}}}

InitHeatmap ==
    /\ donors \in HeatmapDonorTables
    /\ inventory \in HeatmapInventories
    /\ now = 0
    /\ req = NoRequest
    /\ ranked = <<>>
    /\ resp = NoResponse
    /\ call = NoCall
    /\ conn = [t \in Threads |-> IdleConn]
    /\ lock = NoThread
    /\ inv_resp = NoResponse
    /\ blood_usage_history = <<>>
    /\ inventory_movements = <<>>
    /\ events = <<>>

NextHeatmap == GetHeatmap \/ HeatmapReturn

SpecHeatmap == InitHeatmap /\ [][NextHeatmap]_vars

----------------------------------------------------------------------------
(* model2_matching.py: MatchingEngine.search_donors and app.py:             *)
(* /match/donors.  radius_km is in metres, as the distances are.            *)

\* an optional query argument: request.args.get(name, type=float) is None
\* when the argument is absent
NoArg == [given |-> FALSE, value |-> 0]
Arg(value) == [given |-> TRUE, value |-> value]

\* the truth value of an optional float: None and 0.0 are false
Truthy(arg) == arg.given /\ arg.value # 0

\* app.py line 234: (latitude, longitude) if latitude and longitude else None
Location(latitude, longitude) ==
    IF Truthy(latitude) /\ Truthy(longitude)
    THEN [given |-> TRUE, lat |-> latitude.value, lng |-> longitude.value]
    ELSE [given |-> FALSE, lat |-> 0, lng |-> 0]

\* app.py line 236: is_available == 'true' if is_available else None
AvailabilityFilter(is_available) ==
    IF is_available = "" THEN "None"
    ELSE IF is_available = "true" THEN "True" ELSE "False"

\* lines 103-114: SELECT * FROM donors WHERE 1=1 [AND blood_type = ?]
\* [AND is_available = ?], rows in rowid order
SearchSelect(table, blood_type, is_available) ==
    SelectSeq(table,
        LAMBDA row :
            /\ (blood_type # "" => row.blood_type = blood_type)
            /\ (is_available # "None" =>
                   row.is_available = (IF is_available = "True" THEN 1 ELSE 0)))

\* lines 119-124: the column distance_km
WithDistance(df, location) ==
    [i \in 1..Len(df) |->
        [donor_id |-> df[i].donor_id, blood_type |-> df[i].blood_type,
         location_lat |-> df[i].location_lat, location_lng |-> df[i].location_lng,
         last_donation_date |-> df[i].last_donation_date,
         is_available |-> df[i].is_available,
         distance_km |-> _haversine_distance(location.lat, location.lng,
                                             df[i].location_lat, df[i].location_lng)]]

\* lines 98-127.  above_one: the floats put a above 1.0 for a donor antipodal
\* to the location, and _haversine_distance raises
search_donors(table, blood_type, location, radius_km, is_available, above_one) ==
    LET donors_df == SearchSelect(table, blood_type, is_available)
    IN  IF location.given /\ Len(donors_df) > 0
        THEN IF above_one
                /\ \E i \in 1..Len(donors_df) :
                      MayExceedOne(location.lat, location.lng,
                                   donors_df[i].location_lat, donors_df[i].location_lng)
             THEN [raised |-> TRUE, records |-> <<>>]
             ELSE [raised |-> FALSE,
                   records |-> SelectSeq(WithDistance(donors_df, location),
                                         LAMBDA row : row.distance_km <= radius_km)]
        ELSE [raised |-> FALSE, records |-> donors_df]

\* app.py lines 239-244
SearchResponse(found) ==
    [status |-> 200, kind |-> "success", donors |-> found, total_count |-> Len(found)]

\* app.py lines 246-250
SearchError(message) ==
    [status |-> 500, kind |-> "error", message |-> message, donors |-> <<>>,
     total_count |-> 0]

\* app.py line 229: radius_km defaults to 10
DefaultRadius == 10000

\* query strings of GET /match/donors: each argument absent or given, the
\* coordinates 0 among the given ones
SearchQueries ==
    {[kind |-> "search", blood_type |-> bt, latitude |-> lat, longitude |-> lng,
      radius_km |-> r, is_available |-> av] :
        bt \in {"", "O+"},
        lat \in {NoArg, Arg(0), Arg(HospitalLat)},
        lng \in {NoArg, Arg(0), Arg(HospitalLng)},
        r \in {NoArg, Arg(5000)},
        av \in {"", "true", "false", "1"}}

\* the queries whose point, when both coordinates are given, is one the
\* model has the distance of every donor for
Modelled(data, table) ==
    data.latitude.given /\ data.longitude.given =>
        \A i \in 1..Len(table) :
            InDomain(data.latitude.value, data.longitude.value,
                     table[i].location_lat, table[i].location_lng)

\* app.py lines 211-250: GET /api/v1/match/donors
SearchDonors ==
    /\ req = NoRequest
    /\ \E data \in SearchQueries, above_one \in BOOLEAN :
        /\ Modelled(data, donors)
        /\ req' = data
        /\ LET radius_km == IF data.radius_km.given THEN data.radius_km.value
                            ELSE DefaultRadius
               result == search_donors(donors, data.blood_type,
                                       Location(data.latitude, data.longitude),
                                       radius_km,
                                       AvailabilityFilter(data.is_available),
                                       above_one)
           IN  resp' = IF result.raised THEN SearchError("math domain error")
                       ELSE SearchResponse(result.records)
    /\ UNCHANGED <<history_tables, donors, inventory, now, ranked, call, conn, lock,
                   inv_resp>>

\* the response is sent
SearchReturn ==
    /\ req # NoRequest
    /\ req.kind = "search"
    /\ req' = NoRequest
    /\ resp' = NoResponse
    /\ UNCHANGED <<history_tables, donors, inventory, now, ranked, call, conn, lock,
                   inv_resp>>

\* donors at the hospital, 5.6 km and 55.6 km north of it, on the meridian
\* of Greenwich at the same latitudes, and at the hospital's antipode
SearchPlaces ==
    {<<HospitalLat, HospitalLng>>, <<HospitalLat + 5, HospitalLng>>,
     <<HospitalLat + 50, HospitalLng>>, <<HospitalLat, 0>>,
     <<HospitalLat + 50, 0>>, <<-HospitalLat, HospitalLng - 18000>>}

SearchDonorKinds ==
    {[DonorRow(who[1], place[1], NullDate, who[2]) EXCEPT !.location_lng = place[2]] :
        who \in {<<"O+", 1>>, <<"A+", 1>>, <<"O+", 0>>}, place \in SearchPlaces}

SearchDonorTables ==
    {WithIds(s) : s \in UNION {[1..n -> SearchDonorKinds] : n \in 0..(MaxDonors - 1)}}

InitSearch ==
    /\ donors \in SearchDonorTables
    /\ inventory = {}
    /\ now = 0
    /\ req = NoRequest
    /\ ranked = <<>>
    /\ resp = NoResponse
    /\ call = NoCall
    /\ conn = [t \in Threads |-> IdleConn]
    /\ lock = NoThread
    /\ inv_resp = NoResponse
    /\ blood_usage_history = <<>>
    /\ inventory_movements = <<>>
    /\ events = <<>>

NextSearch == SearchDonors \/ SearchReturn

SpecSearch == InitSearch /\ [][NextSearch]_vars

----------------------------------------------------------------------------
(* app.py: all the routes that touch the store, one request at a time, over *)
(* tables that hold a few rows each.                                        *)

\* the five tables of data/database.db
Tables == <<donors, inventory, blood_usage_history, inventory_movements, events>>

\* no request is being served
Quiet == NoneInFlight /\ req = NoRequest

\* the tables as imported (import_data.py lines 66-120)
InitApp ==
    /\ donors \in {WithIds(<<DonorRow("O+", HospitalLat, NullDate, 1),
                            DonorRow("A+", HospitalLat + 50, DateText(2024, 1, 15), 0)>>),
                   WithIds(<<DonorRow("O+", HospitalLat + 5, NullDate, 1),
                            DonorRow("O+", HospitalLat, DateText(2024, 1, 15), 1),
                            DonorRow("A+", HospitalLat, NullDate, 1)>>)}
    /\ inventory \in {{InventoryRow("H002", "A+", 28, 0)},
                      {InventoryRow("H002", "A+", 28, 0),
                       InventoryRow("H001", "O+", 20, 0)}}
    /\ now = 0
    /\ req = NoRequest
    /\ ranked = <<>>
    /\ resp = NoResponse
    /\ call = NoCall
    /\ conn = [t \in Threads |-> IdleConn]
    /\ lock = NoThread
    /\ inv_resp = NoResponse
    /\ blood_usage_history = <<UsageRow("H001", "O+", -5, 3)>>
    /\ inventory_movements = <<MovementRow("H001", "O+", 99, 15, -20)>>
    /\ events = <<EventRow("campaign", 0, 15)>>

NextApp ==
    \/ \E t \in Threads : Quiet /\ UpdateBegin(t)
    \/ \E t \in Threads : UpdateReadClock(t)
    \/ \E t \in Threads : UpdateExecute(t)
    \/ \E t \in Threads : UpdateBindError(t)
    \/ \E t \in Threads : UpdateCommit(t)
    \/ \E t \in Threads : UpdateReturn(t)
    \/ (Quiet /\ GetInventory)
    \/ GetInventoryReturn
    \/ (Quiet /\ PredictShortage)
    \/ (Quiet /\ GetRisks)
    \/ PredictReturn
    \/ (Quiet /\ MatchEmergency)
    \/ MatchEmergencyReturn
    \/ (Quiet /\ SearchDonors)
    \/ SearchReturn
    \/ (Quiet /\ GetWasteAnalysis)
    \/ WasteReturn
    \/ (Quiet /\ GetDemandForecast)
    \/ ForecastReturn
    \/ (Quiet /\ GetHeatmap)
    \/ HeatmapReturn
    \/ Tick

SpecApp == InitApp /\ [][NextApp]_vars

----------------------------------------------------------------------------
(* Direct calls of the pure helpers of MatchingEngine, over sampled         *)
(* arguments.                                                               *)

TypeSamples == BloodTypes \cup {"XX", "o+", ""}
NeededSamples == {"O-", "A+", "AB+", "XX", ""}

\* metres: both sides of every threshold of the distance score, and beyond
\* the 90 km at which max(0.1, 1 - d/100) levels off
DistanceSamples ==
    {0, 5000, 5001, 10000, 10001, 20000, 20001, 55597, 90001, 250000}

\* 138, 90, 89, 56, 55 days before 2024-06-01, a day after it, a text that
\* strptime rejects, and NULL
DateSamples ==
    {DateText(2024, 1, 15), DateText(2024, 3, 3), DateText(2024, 3, 4),
     DateText(2024, 4, 6), DateText(2024, 4, 7), DateText(2024, 6, 2),
     DateText(2024, 2, 30), NullDate}

UrgencySamples == {"CRITICAL", "HIGH", "MEDIUM", "LOW", "critical"}

\* the arguments of a call are drawn when the behaviour starts
\* current_units on both sides of every threshold of days_remaining for the
\* usages below, negative ones, and large ones
UnitSamples == (-3..60) \cup {119, 120, 121, 200, 400}

\* average daily usages: none, and fractions a float holds exactly
UsageSamples ==
    {Rat(0, 1), Rat(1, 2), Rat(1, 1), Rat(3, 2), Rat(3, 1), Rat(7, 2), Rat(4, 1)}

\* points <<latitude, longitude>> in 1/100 degree: the poles, places on the
\* meridian of the hospital and on the equator (both ends of the longitude
\* range among them), and the antipodes of two places
PointSamples ==
    {<<9000, HospitalLng>>, <<-9000, HospitalLng>>,
     <<HospitalLat, HospitalLng>>, <<HospitalLat + 50, HospitalLng>>,
     <<0, HospitalLng>>, <<0, 0>>, <<0, -14877>>, <<0, 17999>>,
     <<0, -18000>>, <<0, 18000>>,
     <<-HospitalLat, -14877>>, <<3034, -17999>>, <<-3034, 1>>}

\* the ordered pairs of sample points the distance is modelled for
PointPairs ==
    {pq \in PointSamples \X PointSamples :
        InDomain(pq[1][1], pq[1][2], pq[2][1], pq[2][2])}

\* the outcomes of a call of _haversine_distance
Returned(value) == [raised |-> FALSE, value |-> value]
ValueError == [raised |-> TRUE, value |-> 0]

InitCalls ==
    /\ donors = <<>>
    /\ inventory = {}
    /\ now \in 0..MaxClock
    /\ req = NoRequest
    /\ ranked = <<>>
    /\ resp = NoResponse
    /\ \/ \E d \in TypeSamples, n \in NeededSamples, dist \in DistanceSamples,
             ld \in DateSamples, u \in UrgencySamples :
             call = [fn |-> "_calculate_matching_score", returned |-> FALSE,
                     donor_blood_type |-> d, needed_blood_type |-> n,
                     distance |-> dist, last_donation |-> ld, urgency |-> u,
                     result |-> 0]
       \/ \E bt \in TypeSamples :
             call = [fn |-> "_get_compatible_blood_types", returned |-> FALSE,
                     blood_type |-> bt, result |-> {}]
       \/ \E u \in UnitSamples, a \in UsageSamples :
             call = [fn |-> "_calculate_risk", returned |-> FALSE,
                     current_units |-> u, avg_daily_usage |-> a,
                     hospital_id |-> "H001", blood_type |-> "O+", result |-> {}]
       \/ \E pq \in PointPairs :
             call = [fn |-> "_haversine_distance", returned |-> FALSE,
                     lat1 |-> pq[1][1], lon1 |-> pq[1][2],
                     lat2 |-> pq[2][1], lon2 |-> pq[2][2], result |-> Returned(0)]
    /\ conn = [t \in Threads |-> IdleConn]
    /\ lock = NoThread
    /\ inv_resp = NoResponse
    /\ blood_usage_history = <<>>
    /\ inventory_movements = <<>>
    /\ events = <<>>

CallScore ==
    /\ call.fn = "_calculate_matching_score"
    /\ ~call.returned
    /\ call' = [call EXCEPT !.returned = TRUE,
                   !.result = _calculate_matching_score(
                                  call.donor_blood_type, call.needed_blood_type,
                                  call.distance, call.last_donation,
                                  call.urgency, now)]
    /\ UNCHANGED <<history_tables, donors, inventory, now, req, ranked, resp, conn, lock, inv_resp>>

CallCompatible ==
    /\ call.fn = "_get_compatible_blood_types"
    /\ ~call.returned
    /\ call' = [call EXCEPT !.returned = TRUE,
                   !.result = _get_compatible_blood_types(call.blood_type)]
    /\ UNCHANGED <<history_tables, donors, inventory, now, req, ranked, resp, conn, lock, inv_resp>>

\* a call of PredictionEngine._calculate_risk
CallRisk ==
    /\ call.fn = "_calculate_risk"
    /\ ~call.returned
    /\ \E tie_up \in BOOLEAN :
          call' = [call EXCEPT !.returned = TRUE,
                      !.result = _calculate_risk(
                                     call.current_units, call.avg_daily_usage,
                                     call.hospital_id, call.blood_type, now, tie_up)]
    /\ UNCHANGED <<history_tables, donors, inventory, now, req, ranked, resp, conn, lock, inv_resp>>

\* a call of MatchingEngine._haversine_distance; above_one is the side of 1.0
\* the floats put a on
CallHaversine ==
    /\ call.fn = "_haversine_distance"
    /\ ~call.returned
    /\ \E above_one \in
            (IF MayExceedOne(call.lat1, call.lon1, call.lat2, call.lon2)
             THEN BOOLEAN ELSE {FALSE}) :
          call' = [call EXCEPT !.returned = TRUE,
                      !.result =
                          IF above_one THEN ValueError
                          ELSE Returned(_haversine_distance(
                                   call.lat1, call.lon1, call.lat2, call.lon2))]
    /\ UNCHANGED <<history_tables, donors, inventory, now, req, ranked, resp, conn, lock, inv_resp>>

NextCalls == CallScore \/ CallCompatible \/ CallRisk \/ CallHaversine

SpecCalls == InitCalls /\ [][NextCalls]_vars

----------------------------------------------------------------------------
(* Claims about the pure helpers, checked under SpecCalls *)

IsScoreCall == call.fn = "_calculate_matching_score" /\ call.returned
IsCompatibleCall == call.fn = "_get_compatible_blood_types" /\ call.returned

\* C1: for every donor type, requested type, distance >= 0, last-donation
\* value (a date, a malformed text or NULL) and urgency (known or not), the
\* score returned by _calculate_matching_score lies in [0, 1.0].
C1_ScoreInUnitInterval ==
    IsScoreCall => (call.result >= 0 /\ call.result <= One)

\* C1 witness: a call whose weighted sum times the multiplier exceeds 1.0
\* (exact type, within 5 km, 90 days or more, CRITICAL), so the cap acts.
C1_Witness ==
    /\ IsScoreCall
    /\ call.urgency = "CRITICAL"
    /\ call.donor_blood_type = call.needed_blood_type
    /\ call.distance <= 5000
    /\ WeightedScore(call.donor_blood_type, call.needed_blood_type,
                     call.distance, call.last_donation, call.urgency, now) > One
    /\ call.result = One

\* The score as the claim C5 writes it, from the values of its table.
C5_Blood(d, n) ==
    CASE d = n -> 100000
      [] d # n /\ d \in _get_compatible_blood_types(n) -> 70000
      [] OTHER -> 0

C5_Dist(dist) ==
    CASE dist <= 5000 -> 100000
      [] dist > 5000 /\ dist <= 10000 -> 70000
      [] dist > 10000 /\ dist <= 20000 -> 40000
      [] OTHER -> IF 100000 - dist > 10000 THEN 100000 - dist ELSE 10000

C5_Recency(ld, clock) ==
    IF ld.kind # "ymd" \/ ~(ld.m \in 1..12) \/ ~(ld.d \in 1..DaysInMonth(ld.y, ld.m))
    THEN 50000
    ELSE LET days == Today(clock) - ToOrdinal(ld.y, ld.m, ld.d) IN
         CASE days >= 90 -> 100000
           [] days >= 56 /\ days < 90 -> 80000
           [] OTHER -> 30000

C5_Multiplier(u) ==
    IF u = "CRITICAL" THEN 12
    ELSE IF u = "HIGH" THEN 11
    ELSE IF u = "LOW" THEN 9
    ELSE 10

Antigens(bt) ==
    CASE bt = "O-" -> {}
      [] bt = "O+" -> {"D"}
      [] bt = "A-" -> {"A"}
      [] bt = "A+" -> {"A", "D"}
      [] bt = "B-" -> {"B"}
      [] bt = "B+" -> {"B", "D"}
      [] bt = "AB-" -> {"A", "B"}
      [] bt = "AB+" -> {"A", "B", "D"}

\* C6: _get_compatible_blood_types is the standard ABO/Rh donor table: all 8
\* types for AB+, only O- for O-, every type in its own result, O- in every
\* result; a string outside the 8 types yields the singleton of that string.
C6_CompatibilityTable ==
    IsCompatibleCall =>
        IF call.blood_type \in BloodTypes
        THEN /\ call.result =
                    {d \in BloodTypes : Antigens(d) \subseteq Antigens(call.blood_type)}
             /\ call.blood_type \in call.result
             /\ "O-" \in call.result
             /\ (call.blood_type = "AB+" => call.result = BloodTypes)
             /\ (call.blood_type = "O-" => call.result = {"O-"})
        ELSE call.result = {call.blood_type}

\* C6 witness: the lookups of AB+ (8 donors types) and of an unknown string
\* have both been seen; here the one of a 4-type row.
C6_Witness ==
    /\ IsCompatibleCall
    /\ call.blood_type = "A+"
    /\ Cardinality(call.result) = 4

----------------------------------------------------------------------------
(* Claims about PredictionEngine._calculate_risk, checked under SpecCalls *)

IsRiskCall == call.fn = "_calculate_risk" /\ call.returned

\* days_remaining of a returned call as the fraction n / d, d > 0
C12_Days ==
    IF call.avg_daily_usage.n = 0
    THEN Rat(call.current_units, 1)
    ELSE Rat(call.current_units * call.avg_daily_usage.d, call.avg_daily_usage.n)

\* the returned risk_score (hundredths) is the fraction n / d of thousandths
\* rounded to two decimals
C12_Rounds(risk_score, n, d) ==
    /\ 10 * risk_score * d - n <= 5 * d
    /\ n - 10 * risk_score * d <= 5 * d

C14_ShortageDateBelow30 ==
    IsRiskCall =>
        LET n == C12_Days.n
            d == C12_Days.d
            r == call.result
        IN  IF n < 30 * d
            THEN /\ r.expected_shortage_date.kind = "day"
                 /\ r.days_to_shortage.kind = "int"
                 /\ n >= 0 => /\ r.days_to_shortage.value * d <= n
                               /\ n < (r.days_to_shortage.value + 1) * d
                 /\ n < 0 => /\ r.days_to_shortage.value * d >= n
                              /\ n > (r.days_to_shortage.value - 1) * d
                              /\ r.days_to_shortage.value <= 0
            ELSE /\ r.expected_shortage_date = NoDate
                 /\ r.days_to_shortage = NoDate

\* C14 witness: the call (119, 4.0) has returned: 29.75 days remain, the
\* result carries a date and days_to_shortage = 29.
C14_Witness ==
    /\ IsRiskCall
    /\ call.current_units = 119
    /\ call.avg_daily_usage = Rat(4, 1)
    /\ call.result.expected_shortage_date.kind = "day"
    /\ call.result.days_to_shortage = [kind |-> "int", value |-> 29]

----------------------------------------------------------------------------
(* Claims about predict_shortages, checked under SpecPredict *)

\* a request for predictions has been answered, with no risk_level filter
PredictionsAnswered ==
    /\ req.kind \in {"predict", "risks"}
    /\ req.body # "array"
    /\ req.risk_level = ""
    /\ resp # NoResponse

\* the usage rows of the last 30 days for the key of inventory record r
C13_RecentUsage(r) ==
    {i \in 1..Len(blood_usage_history) :
        /\ blood_usage_history[i].hospital_id = r.hospital_id
        /\ blood_usage_history[i].blood_type = r.blood_type
        /\ blood_usage_history[i].date_of_usage >= now - 30}

\* the inventory records the request's filters select
C13_Selected ==
    {r \in inventory :
        /\ (req.hospital_id # "" => r.hospital_id = req.hospital_id)
        /\ (req.blood_type # "" => r.blood_type = req.blood_type)}

\* C13: predict_shortages answers without an error and with exactly one
\* prediction for every inventory record the filters select; for a record
\* with no usage history in the window, or an average usage of 0, the usage
\* is taken as 1 and the prediction is the normal one for days_remaining =
\* current_units.
C13_ZeroUsageIsOne ==
    PredictionsAnswered =>
        /\ resp.status = 200
        /\ resp.total_predictions = Cardinality(C13_Selected)
        /\ \A r \in C13_Selected :
               /\ Cardinality({p \in resp.predictions :
                                  /\ p.hospital_id = r.hospital_id
                                  /\ p.blood_type = r.blood_type}) = 1
               /\ (\A i \in C13_RecentUsage(r) :
                       blood_usage_history[i].units_used = 0) =>
                      \E p \in resp.predictions :
                          /\ p.hospital_id = r.hospital_id
                          /\ p.blood_type = r.blood_type
                          /\ p.current_units = r.current_units
                          /\ p.avg_daily_usage = 100
                          /\ p.risk_level =
                                 (IF r.current_units <= 3 THEN "CRITICAL"
                                  ELSE IF r.current_units <= 7 THEN "HIGH"
                                  ELSE IF r.current_units <= 14 THEN "MEDIUM"
                                  ELSE "LOW")
                          /\ IF r.current_units < 30
                             THEN p.days_to_shortage =
                                      [kind |-> "int", value |-> r.current_units]
                             ELSE p.days_to_shortage = NoDate

\* C13 witness: predictions were answered for two inventory records, one
\* with recent usage and (H001, O+) holding 8 units whose only usage row is
\* older than 30 days: its prediction has usage 1.00 and 8 days to shortage.
C13_Witness ==
    /\ PredictionsAnswered
    /\ Cardinality(C13_Selected) = 2
    /\ \E r \in C13_Selected : C13_RecentUsage(r) # {}
    /\ \E r \in C13_Selected :
           /\ r.hospital_id = "H001"
           /\ r.current_units = 8
           /\ C13_RecentUsage(r) = {}
           /\ \E i \in 1..Len(blood_usage_history) :
                  blood_usage_history[i].hospital_id = "H001"
           /\ \E p \in resp.predictions :
                  /\ p.hospital_id = "H001"
                  /\ p.avg_daily_usage = 100
                  /\ p.risk_level = "MEDIUM"
                  /\ p.days_to_shortage = [kind |-> "int", value |-> 8]

----------------------------------------------------------------------------
(* Claims about calculate_waste_rates, checked under SpecWaste *)

WasteAnswered == req.kind = "waste" /\ resp # NoResponse

\* the movement records of key k in the request's filter window
C17_Rows(k) ==
    {i \in 1..Len(inventory_movements) :
        /\ inventory_movements[i].hospital_id = k[1]
        /\ inventory_movements[i].blood_type = k[2]
        /\ (req.hospital_id # "" => k[1] = req.hospital_id)
        /\ (req.blood_type # "" => k[2] = req.blood_type)
        /\ (req.start_date.given =>
                inventory_movements[i].movement_date >= req.start_date.day)
        /\ (req.end_date.given =>
                inventory_movements[i].movement_date <= req.end_date.day)}

\* the (hospital, blood_type) groups with a record in the window
C17_Groups == {k \in MovementKeys : C17_Rows(k) # {}}

C17_Collected(k) == SumField(inventory_movements, C17_Rows(k), "units_collected")
C17_Expired(k) == SumField(inventory_movements, C17_Rows(k), "units_expired")
C17_AllRows == UNION {C17_Rows(k) : k \in C17_Groups}

\* rate (thousandths) is expired / (collected + 1) rounded to three decimals
C17_IsRate(rate, expired, collected) ==
    /\ 2 * (rate * (collected + 1) - 1000 * expired) <= collected + 1
    /\ 2 * (1000 * expired - rate * (collected + 1)) <= collected + 1

\* C17: for every (hospital, blood_type) group of movement records in the
\* filter window the result has one entry with waste_rate = total_expired /
\* (total_collected + 1) (to three decimals) and status LOW below 0.05,
\* ACCEPTABLE below 0.10, HIGH below 0.20, else CRITICAL (collected 250,
\* expired 15: ACCEPTABLE); overall_waste_rate is sum(expired) /
\* (sum(collected) + 1) over the same groups, and 0.0 when no record matches.
C17_WasteRates ==
    WasteAnswered =>
        /\ resp.status = 200
        /\ {<<w.hospital_id, w.blood_type>> : w \in resp.waste_rates} = C17_Groups
        /\ Cardinality(resp.waste_rates) = Cardinality(C17_Groups)
        /\ \A w \in resp.waste_rates :
               LET k == <<w.hospital_id, w.blood_type>>
                   e == C17_Expired(k)
                   c == C17_Collected(k)
               IN  /\ w.units_expired = e
                   /\ w.total_units = c
                   /\ C17_IsRate(w.waste_rate, e, c)
                   /\ w.status = (IF 100 * e < 5 * (c + 1) THEN "LOW"
                                  ELSE IF 100 * e < 10 * (c + 1) THEN "ACCEPTABLE"
                                  ELSE IF 100 * e < 20 * (c + 1) THEN "HIGH"
                                  ELSE "CRITICAL")
                   /\ (c = 250 /\ e = 15) => w.status = "ACCEPTABLE"
        /\ IF C17_Groups = {}
           THEN resp.overall_waste_rate = 0
           ELSE C17_IsRate(resp.overall_waste_rate,
                           SumField(inventory_movements, C17_AllRows, "units_expired"),
                           SumField(inventory_movements, C17_AllRows, "units_collected"))

\* C17 witness: an analysis with a start date was answered; the group of
\* (H001, O+) has collected 250 and expired 15 in the window (ACCEPTABLE,
\* rate 0.060) and one more record, with units, before the start date.
C17_Witness ==
    /\ WasteAnswered
    /\ req.start_date.given
    /\ \E i \in 1..Len(inventory_movements) :
           /\ inventory_movements[i].movement_date < req.start_date.day
           /\ inventory_movements[i].hospital_id = "H001"
           /\ inventory_movements[i].units_expired > 0
    /\ \E w \in resp.waste_rates :
           /\ w.hospital_id = "H001"
           /\ w.total_units = 250
           /\ w.units_expired = 15
           /\ w.waste_rate = 60
           /\ w.status = "ACCEPTABLE"
\* the groups in the window whose rate expired / (collected + 1) is above 0.15
C18_HighGroups ==
    {k \in C17_Groups : 100 * C17_Expired(k) > 15 * (C17_Collected(k) + 1)}

RECURSIVE C18_SumOfRates(_)
\* the sum of the rates of the groups ks, as a fraction
C18_SumOfRates(ks) ==
    IF ks = {} THEN Rat(0, 1)
    ELSE LET k == CHOOSE x \in ks : TRUE
             rest == C18_SumOfRates(ks \ {k})
         IN  Rat(C17_Expired(k) * rest.d + rest.n * (C17_Collected(k) + 1),
                 (C17_Collected(k) + 1) * rest.d)

\* the mean of the group rates is above 0.10
C18_MeanHigh ==
    /\ C17_Groups # {}
    /\ 10 * C18_SumOfRates(C17_Groups).n
           > C18_SumOfRates(C17_Groups).d * Cardinality(C17_Groups)

\* one recommendation per group above 0.15 and one more when the mean is
\* above 0.10
C18_Emitted ==
    /\ {<<r.hospital_id, r.blood_type>> :
            r \in {x \in resp.recommendations : x.kind = "high_waste"}} = C18_HighGroups
    /\ Cardinality({x \in resp.recommendations : x.kind = "high_waste"})
           = Cardinality(C18_HighGroups)
    /\ ([kind |-> "overall", hospital_id |-> "", blood_type |-> ""]
            \in resp.recommendations) <=> C18_MeanHigh

\* C18 as stated: one recommendation per group above 0.15, one more when the
\* mean of the group rates is above 0.10, and an empty list when neither
\* holds.
C18_RecommendationsOrEmpty ==
    WasteAnswered =>
        /\ C18_Emitted
        /\ (C18_HighGroups = {} /\ ~C18_MeanHigh) => resp.recommendations = {}

\* C18 amended: one recommendation per group above 0.15 and one more when
\* the mean of the group rates is above 0.10; when neither holds the list
\* holds the single message that the waste rates are within acceptable
\* limits, and it is empty only when no record matches the filters.
C18_RecommendationsOrDefault ==
    WasteAnswered =>
        /\ C18_Emitted
        /\ (C18_HighGroups = {} /\ ~C18_MeanHigh) =>
               resp.recommendations =
                   (IF C17_Groups = {} THEN {}
                    ELSE {[kind |-> "within_limits", hospital_id |-> "",
                           blood_type |-> ""]})
        /\ (C18_HighGroups # {} \/ C18_MeanHigh) =>
               \A r \in resp.recommendations : r.kind \in {"high_waste", "overall"}

\* C18 witness: an analysis was answered with two groups, one at a rate of
\* exactly 0.15 and one above it, and a mean above 0.10: one recommendation
\* for the group above 0.15 and the overall one.
C18_Witness ==
    /\ WasteAnswered
    /\ Cardinality(C17_Groups) = 2
    /\ Cardinality(C18_HighGroups) = 1
    /\ \E k \in C17_Groups : 100 * C17_Expired(k) = 15 * (C17_Collected(k) + 1)
    /\ C18_MeanHigh
    /\ Cardinality(resp.recommendations) = 2

----------------------------------------------------------------------------
(* Claims about forecast_demand, checked under SpecForecast *)

ForecastAnswered == req.kind = "forecast" /\ resp # NoResponse

\* the usage rows of key k in the trailing 90 days that the filters select
C19_Rows(k) ==
    {i \in 1..Len(blood_usage_history) :
        /\ blood_usage_history[i].hospital_id = k[1]
        /\ blood_usage_history[i].blood_type = k[2]
        /\ (req.hospital_id # "" => k[1] = req.hospital_id)
        /\ (req.blood_type # "" => k[2] = req.blood_type)
        /\ blood_usage_history[i].date_of_usage >= now - 90}

\* the events dated within the next 30 days
C19_Events == {i \in 1..Len(events) : events[i].event_date \in now..(now + 30)}

RECURSIVE C19_Adjustment(_)
\* the sum of impact_level - 1.0 over the events es, in 1/10
C19_Adjustment(es) ==
    IF es = {} THEN 0
    ELSE LET i == CHOOSE j \in es : TRUE
         IN  (events[i].impact_level - 10) + C19_Adjustment(es \ {i})

----------------------------------------------------------------------------
(* Claims about generate_heatmap, checked under SpecHeatmap *)

HeatmapAnswered == req.kind = "heatmap" /\ resp # NoResponse

\* the number of available donors in the store
C20_Available == Cardinality({i \in 1..Len(donors) : donors[i].is_available = 1})

\* the areas of the response that stand for inventory row r
C20_AreasOf(r) ==
    {i \in 1..Len(resp.areas) :
        /\ resp.areas[i].hospital_id = r.hospital_id
        /\ resp.areas[i].demand_score = Max(10, 100 - 2 * r.current_units)}

----------------------------------------------------------------------------
(* Claims about MatchingEngine._haversine_distance, checked under SpecCalls *)

IsHaversineCall == call.fn = "_haversine_distance" /\ call.returned

\* C21: for all valid coordinate pairs a and b, _haversine_distance(a, a) is
\* 0, _haversine_distance(a, b) equals _haversine_distance(b, a), and the
\* result is never negative: every call returns a distance, which is at least
\* 0, is 0 when both points are the same, and is the distance of the call
\* with the points exchanged.
C21_DistanceContract ==
    IsHaversineCall =>
        /\ ~call.result.raised
        /\ call.result.value >= 0
        /\ (call.lat1 = call.lat2 /\ call.lon1 = call.lon2 => call.result.value = 0)
        /\ call.result.value =
               _haversine_distance(call.lat2, call.lon2, call.lat1, call.lon1)

\* the three properties on the calls that return
C21_HoldsWhenReturned ==
    IsHaversineCall /\ ~call.result.raised =>
        /\ call.result.value >= 0
        /\ (call.lat1 = call.lat2 /\ call.lon1 = call.lon2 => call.result.value = 0)
        /\ call.result.value =
               _haversine_distance(call.lat2, call.lon2, call.lat1, call.lon1)

----------------------------------------------------------------------------
(* Claims about /match/donors, checked under SpecSearch *)

SearchAnswered == req # NoRequest /\ req.kind = "search" /\ resp # NoResponse

\* the radius of the request, in metres
C24_Radius == IF req.radius_km.given THEN req.radius_km.value ELSE DefaultRadius

\* the distance of a returned donor from the point of the request
C24_Distance(d) ==
    _haversine_distance(req.latitude.value, req.longitude.value,
                        d.location_lat, d.location_lng)

\* C24: whenever a GET /match/donors request supplies both latitude and
\* longitude (any values, including 0), every returned donor lies within
\* radius_km (default 10) of that point and matches the blood_type and
\* is_available filters given; donors outside the radius are never returned.
C24_WithinRadius ==
    SearchAnswered /\ req.latitude.given /\ req.longitude.given /\ resp.status = 200 =>
        \A i \in 1..Len(resp.donors) :
            LET d == resp.donors[i] IN
            /\ C24_Distance(d) <= C24_Radius
            /\ (req.blood_type # "" => d.blood_type = req.blood_type)
            /\ (req.is_available = "true" => d.is_available = 1)
            /\ (req.is_available = "false" => d.is_available = 0)

\* the same for the requests whose coordinates are both different from 0
C24_WithinRadiusNonZero ==
    SearchAnswered /\ Truthy(req.latitude) /\ Truthy(req.longitude)
    /\ resp.status = 200 =>
        \A i \in 1..Len(resp.donors) :
            LET d == resp.donors[i] IN
            /\ C24_Distance(d) <= C24_Radius
            /\ (req.blood_type # "" => d.blood_type = req.blood_type)
            /\ (req.is_available = "true" => d.is_available = 1)
            /\ (req.is_available = "false" => d.is_available = 0)

----------------------------------------------------------------------------
(* Claims about the last_updated column, checked under SpecInventory *)

\* the row of the key of thread t's request, as a set
C23_Row(table, t) ==
    Conflicts(table, conn[t].data.hospital_id, conn[t].data.blood_type)

\* the commit of thread t leaves its current_units with one of the two clock
\* values the same request read
C23_SameRequest(t) ==
    \A r \in C23_Row(inventory', t) :
        /\ r.current_units = conn[t].data.current_units
        /\ r.last_updated =
              IF C23_Row(inventory, t) = {} THEN conn[t].ts_insert
              ELSE conn[t].ts_update

\* the commit of thread t leaves a last_updated not earlier than the one it
\* replaces
C23_NotEarlier(t) ==
    \A old \in C23_Row(inventory, t), new \in C23_Row(inventory', t) :
        new.last_updated >= old.last_updated

\* C23: the last_updated value of an inventory row never decreases over
\* time: under any interleaving of concurrent /inventory/update requests on
\* the same key, where each request reads the clock before its write reaches
\* the store, every committed write leaves a last_updated that is later than
\* or equal to the one it replaces, and the stored current_units and
\* last_updated always come from the same request.
C23_LastUpdatedMonotone ==
    [][\A t \in Threads : Commits(t) => C23_NotEarlier(t) /\ C23_SameRequest(t)]_vars

\* the second half alone: what a commit stores comes from one request
C23_FromOneRequest ==
    [][\A t \in Threads : Commits(t) => C23_SameRequest(t)]_vars

----------------------------------------------------------------------------
(* Claims about what the routes write, checked under SpecApp *)

\* C22: only /inventory/update changes the store: any sequence of shortage
\* prediction, risk listing, emergency matching, donor search, waste,
\* forecast, heatmap and inventory read requests, successful or failed,
\* leaves every table (inventory, usage history, donors, movements, events)
\* unchanged, including each donor's availability flag after being matched.
\* Every step other than the commit of an update leaves the five tables as
\* they were, and a commit changes none but blood_inventory.
C22_OnlyUpdateWrites ==
    [][ /\ (\A t \in Threads : ~Commits(t)) => Tables' = Tables
        /\ donors' = donors
        /\ history_tables' = history_tables
      ]_vars

\* C22 witness: after an update has changed blood_inventory, an emergency
\* match is answered with donors, each of them still available in the
\* table.
C22_Witness ==
    /\ req # NoRequest
    /\ req.kind = "json"
    /\ resp.status = 200
    /\ resp.total_matches > 0
    /\ \A j \in 1..Len(resp.matched_donors) :
          \E i \in 1..Len(donors) :
              /\ donors[i].donor_id = resp.matched_donors[j].donor_id
              /\ donors[i].is_available = 1
    /\ \E r \in inventory : r.current_units = 45

============================================================================
